---- MODULE Spec2Model ----
(***************************************************************************)
(* A model of the cyclonedds-rs serialization plug-in (src/src/serdes.rs)  *)
(* and of the Topic derive macro (src/dds_derive/src/lib.rs): the wire     *)
(* codec as the cdr crate is called, the scatter-gather reader, the        *)
(* key-hash derivation and the life of a serialized data cell (SerData)    *)
(* as the transport drives it through the serdata callback table.          *)
(*                                                                         *)
(* Bytes are integers 0..255.  The values of ddsrt_md5 and murmur3_32,     *)
(* which are computed outside the repository, are opaque: a digest byte is *)
(* an integer >= 256 that names the digested input and the byte's index,   *)
(* and a bucketing hash is an integer that names the hashed input.         *)
(***************************************************************************)
EXTENDS Integers, Sequences, FiniteSets, TLC

\* ------------------------------------------------------------------ bounds

\* Cells the transport holds at the same time.
MaxCells == 2

\* ------------------------------------------------------- application types
\* A field's type as the derive macro sees it (syn::Type): a path (a
\* primitive, String, or another struct) or an array of a path.

TyPath(name) == [kind |-> "path", name |-> name, n |-> 0, holder |-> FALSE]

TyArray(elem, n) == [kind |-> "array", name |-> elem, n |-> n, holder |-> FALSE]

\* The path <name>KeyHolder_ the macro puts in place of a struct key field.
TyHolder(name) == [kind |-> "path", name |-> name, n |-> 0, holder |-> TRUE]

Fld(ident, key, ty) == [ident |-> ident, key |-> key, ty |-> ty]

\* The structs deriving Topic in this model, named after the ones of the
\* repository's tests and of the specification's scenario.
StructNames == {"Point", "Named", "ArrKey", "StrArr", "Outer", "Pair", "NoKey"}

Fields(T) ==
    CASE T = "Point"  -> << Fld("id", TRUE, TyPath("u32")), Fld("x", FALSE, TyPath("u32")) >>
      [] T = "Named"  -> << Fld("s", TRUE, TyPath("String")), Fld("x", FALSE, TyPath("u8")) >>
      [] T = "ArrKey" -> << Fld("a", TRUE, TyArray("u8", 8)), Fld("b", FALSE, TyPath("u8")) >>
      [] T = "StrArr" -> << Fld("a", TRUE, TyArray("String", 1)), Fld("x", FALSE, TyPath("u8")) >>
      [] T = "Outer"  -> << Fld("inner", TRUE, TyPath("Named")), Fld("y", FALSE, TyPath("u8")) >>
      [] T = "Pair"   -> << Fld("id", TRUE, TyPath("u32")), Fld("x", FALSE, TyPath("u8")),
                            Fld("s", TRUE, TyPath("String")), Fld("inner", TRUE, TyPath("Named")) >>
      [] T = "NoKey"  -> << Fld("x", FALSE, TyPath("u32")) >>

\* ------------------------------------------------------------ derive macro

is_key(field) == field.key

is_primitive_type_path(name) ==
    name \in {"bool", "i8", "i16", "i32", "i64", "i128", "isize",
              "u8", "u16", "u32", "u64", "u128", "usize", "f32", "f64", "String"}

is_primitive(field) ==
    field.ty.kind = "path" /\ is_primitive_type_path(field.ty.name)

is_variable_length(field) ==
    field.ty.kind = "path" /\ field.ty.name \in {"Vec", "String"}

\* The indices of the fields build_key_holder_struct copies into the holder.
KeyFieldIdx(T) == { i \in 1..Len(Fields(T)) : is_key(Fields(T)[i]) }

\* The macro's local `variable_length` once its loop over the fields is over:
\* only a primitive key field is asked whether its length varies.
variable_length(T) ==
    \E i \in KeyFieldIdx(T) : is_primitive(Fields(T)[i]) /\ is_variable_length(Fields(T)[i])

\* The macro's `contained_types`: the key fields that are structs.
contained_types(T) ==
    { Fields(T)[i].ty.name : i \in { j \in KeyFieldIdx(T) :
          ~is_primitive(Fields(T)[j]) /\ Fields(T)[j].ty.kind = "path" } }

\* <T>KeyHolder_::is_variable_length()
RECURSIVE KeyHolder_is_variable_length(_)
KeyHolder_is_variable_length(T) ==
    IF ~variable_length(T)
    THEN \E C \in contained_types(T) : KeyHolder_is_variable_length(C)
    ELSE TRUE

force_md5_keyhash(T) == KeyHolder_is_variable_length(T)

\* std::mem::size_of::<<T>KeyHolder_>() > 0
RECURSIVE KeyHolderSizePositive(_)
KeyHolderSizePositive(T) ==
    \E i \in KeyFieldIdx(T) :
        LET f == Fields(T)[i] IN
        IF f.ty.kind = "array" THEN f.ty.n > 0
        ELSE IF is_primitive(f) THEN TRUE
        ELSE KeyHolderSizePositive(f.ty.name)

has_key(T) == KeyHolderSizePositive(T)

\* The key fields' indices in declaration order (the order of field_idents).
RECURSIVE KeyIdxFrom(_, _)
KeyIdxFrom(T, i) ==
    IF i > Len(Fields(T)) THEN << >>
    ELSE IF is_key(Fields(T)[i]) THEN << i >> \o KeyIdxFrom(T, i + 1)
    ELSE KeyIdxFrom(T, i + 1)

\* A variant that copies every field into the holder.
field_idents_all(T) == [ i \in 1..Len(Fields(T)) |-> i ]

field_idents(T) == KeyIdxFrom(T, 1)

\* The fields of struct <T>KeyHolder_ (field_types): a primitive or an array
\* keeps its type, a struct field gets that struct's key holder as its type.
HolderFields(T) ==
    [ k \in 1..Len(field_idents(T)) |->
        LET f == Fields(T)[field_idents(T)[k]] IN
        IF f.ty.kind = "path" /\ ~is_primitive(f)
        THEN Fld(f.ident, TRUE, TyHolder(f.ty.name))
        ELSE f ]

\* From<&T> for <T>KeyHolder_: a primitive or an array is cloned, a struct
\* field is converted by its own From (into()).
RECURSIVE KeyHolderFrom(_, _)
KeyHolderFrom(T, v) ==
    [ k \in 1..Len(field_idents(T)) |->
        LET f == Fields(T)[field_idents(T)[k]] IN
        IF f.ty.kind = "path" /\ ~is_primitive(f)
        THEN KeyHolderFrom(f.ty.name, v[field_idents(T)[k]])
        ELSE v[field_idents(T)[k]] ]

\* The fields a path type is encoded with.
FieldsOf(ty) == IF ty.holder THEN HolderFields(ty.name) ELSE Fields(ty.name)

\* ------------------------------------------------- cdr crate: serialization
\* cdr::serialize::<_, _, CdrBe>(value, Infinite): the 4-byte encapsulation
\* header, then the payload, every primitive aligned to its size counted from
\* the start of the payload.

ENCAPSULATION_HEADER == << 0, 0, 0, 0 >>

U32Be(n) == << n \div 16777216, (n \div 65536) % 256, (n \div 256) % 256, n % 256 >>

U32Le(n) == << n % 256, (n \div 256) % 256, (n \div 65536) % 256, n \div 16777216 >>

Zeros(n) == [ i \in 1..n |-> 0 ]

\* Serializer::add_padding_of::<u32>: zero bytes up to the next multiple of 4.
AddPadding4(out) == out \o Zeros((4 - (Len(out) % 4)) % 4)

RECURSIVE SerValue(_, _, _)
RECURSIVE SerSeq(_, _, _, _)
\* The payload `out` with the value v of type ty appended.
SerValue(ty, v, out) ==
    IF ty.kind = "array"
    THEN SerSeq([ i \in 1..ty.n |-> TyPath(ty.name) ], v, out, 1)
    ELSE IF ty.name = "u8" THEN Append(out, v)
    ELSE IF ty.name = "u32" THEN AddPadding4(out) \o U32Be(v)
    ELSE IF ty.name = "String"
         THEN (AddPadding4(out) \o U32Be(Len(v) + 1)) \o v \o << 0 >>
    ELSE SerSeq([ i \in 1..Len(FieldsOf(ty)) |-> FieldsOf(ty)[i].ty ], v, out, 1)

\* The elements i.. of the tuple vs, of types tys, appended in order.
SerSeq(tys, vs, out, i) ==
    IF i > Len(tys) THEN out
    ELSE SerSeq(tys, vs, SerValue(tys[i], vs[i], out), i + 1)

\* cdr::serialize of a value of struct T.
Serialize(T, v) == ENCAPSULATION_HEADER \o SerValue(TyPath(T), v, << >>)

\* TopicType::key_cdr: the key holder of v, serialized, header included.
key_cdr(T, v) == ENCAPSULATION_HEADER \o SerValue(TyHolder(T), KeyHolderFrom(T, v), << >>)

\* ------------------------------------------------------------ sample values
\* The values of each struct the transport's peers send in this model.

LongText == << 97, 98, 99, 100, 101, 102, 103, 104, 105, 106, 107, 108, 109 >>

Values(T) ==
    CASE T = "Point"  -> { << id, x >> : id \in {1, 305419896}, x \in {0, 7} }
      [] T = "Named"  -> { << s, x >> : s \in { << 97 >>, << 98 >> }, x \in {0, 1} }
      [] T = "ArrKey" -> { << a, 0 >> : a \in { << 1, 2, 3, 4, 5, 6, 7, 8 >>,
                                                 << 1, 2, 3, 4, 9, 9, 9, 9 >>,
                                                 << 0, 0, 0, 0, 5, 6, 7, 8 >> } }
      [] T = "StrArr" -> { << << s >>, 0 >> : s \in { << 97 >>, LongText } }
      [] T = "Outer"  -> { << n, 0 >> : n \in { << << 97 >>, 0 >>, << << 98 >>, 0 >>,
                                                 << << 97 >>, 1 >> } }
      [] T = "Pair"   -> { << 1, 0, << 97 >>, << << 97 >>, 0 >> >>,
                            << 1, 1, << 97 >>, << << 97 >>, 1 >> >>,
                            << 2, 0, << 97 >>, << << 97 >>, 0 >> >>,
                            << 1, 0, << 98 >>, << << 97 >>, 0 >> >>,
                            << 1, 0, << 97 >>, << << 98 >>, 0 >> >> }
      [] T = "NoKey"  -> { << x >> : x \in {3, 4} }

\* ----------------------------------------------------- scatter-gather reader
\* SGReader: sc_list is the list of slices while `alive` (Some), the cursor and
\* the offset are 0-based as in the source.

SGReader_new(sc_list) ==
    [sc_list |-> sc_list, alive |-> TRUE, slice_cursor |-> 0, slice_offset |-> 0]

Min(a, b) == IF a < b THEN a ELSE b

\* A variant that forgets where in the slice a short read stopped.
SGReader_read_restart(r, n) ==
    IF r.alive
    THEN IF r.slice_cursor >= Len(r.sc_list)
         THEN [r |-> r, data |-> << >>, panic |-> TRUE]
         ELSE LET source_slice     == r.sc_list[r.slice_cursor + 1]
                  num_slices       == Len(r.sc_list)
                  source_slice_rem == Len(source_slice) - r.slice_offset
                  copy_length      == Min(source_slice_rem, n)
                  data == SubSeq(source_slice, 1, copy_length)
              IN  IF copy_length = source_slice_rem
                  THEN [r |-> [r EXCEPT !.slice_cursor = r.slice_cursor + 1,
                                        !.slice_offset = 0,
                                        !.alive = (r.slice_cursor + 1 < num_slices)],
                        data |-> data, panic |-> FALSE]
                  ELSE [r |-> [r EXCEPT !.slice_offset = r.slice_offset + copy_length],
                        data |-> data, panic |-> FALSE]
    ELSE [r |-> r, data |-> << >>, panic |-> FALSE]

\* <SGReader as Read>::read with a buffer of n bytes: the reader afterwards,
\* the bytes copied, and `panic` when indexing sc_list is out of bounds.
SGReader_read(r, n) ==
    IF r.alive
    THEN IF r.slice_cursor >= Len(r.sc_list)
         THEN [r |-> r, data |-> << >>, panic |-> TRUE]
         ELSE LET source_slice     == r.sc_list[r.slice_cursor + 1]
                  num_slices       == Len(r.sc_list)
                  source_slice_rem == Len(source_slice) - r.slice_offset
                  copy_length      == Min(source_slice_rem, n)
                  data == SubSeq(source_slice, r.slice_offset + 1, r.slice_offset + copy_length)
              IN  IF copy_length = source_slice_rem
                  THEN [r |-> [r EXCEPT !.slice_cursor = r.slice_cursor + 1,
                                        !.slice_offset = 0,
                                        !.alive = (r.slice_cursor + 1 < num_slices)],
                        data |-> data, panic |-> FALSE]
                  ELSE [r |-> [r EXCEPT !.slice_offset = r.slice_offset + copy_length],
                        data |-> data, panic |-> FALSE]
    ELSE [r |-> r, data |-> << >>, panic |-> FALSE]

\* std::io::Read::read_exact over the reader: read until n bytes are there; a
\* read of 0 bytes ends it with UnexpectedEof.  st is "ok", "err" or "panic".
RECURSIVE read_exact(_, _, _)
RECURSIVE read_exact_got(_, _, _)
read_exact(r, n, acc) ==
    IF n = 0 THEN [r |-> r, data |-> acc, st |-> "ok"]
    ELSE read_exact_got(SGReader_read(r, n), n, acc)

\* The match on what one read returned, inside read_exact's loop.
read_exact_got(got, n, acc) ==
    IF got.panic THEN [r |-> got.r, data |-> acc, st |-> "panic"]
    ELSE IF Len(got.data) = 0 THEN [r |-> got.r, data |-> acc, st |-> "err"]
    ELSE read_exact(got.r, n - Len(got.data), acc \o got.data)

\* ----------------------------------------------- cdr crate: deserialization
\* cdr::Deserializer over the reader r: pos counts the payload bytes read (for
\* alignment), limit is what Bounded(size) still allows, st is "ok", "err"
\* (the Err the decode returns) or "panic".

\* The deserializer after read_size(n) succeeded and read_exact returned g.
DeTook(d, n, g) ==
    [d |-> [r |-> g.r, pos |-> d.pos + n, limit |-> d.limit - n, st |-> g.st],
     data |-> g.data]

\* read_size(n), then reader.read_exact of n bytes.
DeTake(d, n) ==
    IF d.st # "ok" THEN [d |-> d, data |-> << >>]
    ELSE IF d.limit < n THEN [d |-> [d EXCEPT !.st = "err"], data |-> << >>]
    ELSE DeTook(d, n, read_exact(d.r, n, << >>))

\* read_padding_of::<u32>
DePad4(d) == IF d.pos % 4 = 0 THEN d ELSE DeTake(d, 4 - (d.pos % 4)).d

\* The u8 in the byte just taken.
U8Of(t) == [d |-> t.d, v |-> IF t.d.st = "ok" THEN t.data[1] ELSE 0]

DeU8(d) == U8Of(DeTake(d, 1))

\* The u32 in the four bytes just taken, in the byte order the header announced.
U32Of(t, le) ==
    [d |-> t.d,
     v |-> IF t.d.st # "ok" THEN 0
           ELSE IF le
           THEN t.data[1] + 256 * t.data[2] + 65536 * t.data[3] + 16777216 * t.data[4]
           ELSE t.data[4] + 256 * t.data[3] + 65536 * t.data[2] + 16777216 * t.data[1]]

\* deserialize_u32: the padding, then four bytes.
DeU32(d, le) == U32Of(DeTake(DePad4(d), 4), le)

\* String::from_utf8 on the byte values this model sends: ASCII is valid, the
\* bytes 0xF8..0xFF never are.
IsUtf8(bytes) == \A i \in 1..Len(bytes) : bytes[i] < 128

\* The String in the bytes read_vec took: the last one (the terminator) is
\* popped whatever it is, the rest must be UTF-8.
StringOf(t) ==
    IF t.d.st # "ok" THEN [d |-> t.d, v |-> << >>]
    ELSE IF ~IsUtf8(SubSeq(t.data, 1, Len(t.data) - 1))
    THEN [d |-> [t.d EXCEPT !.st = "err"], v |-> << >>]
    ELSE [d |-> t.d, v |-> SubSeq(t.data, 1, Len(t.data) - 1)]

\* read_vec once its u32 length n is read: that many bytes.
DeVec(n) == DeTake(n.d, n.v)

\* read_string
DeString(d, le) == StringOf(DeVec(DeU32(d, le)))

RECURSIVE DeValue(_, _, _)
RECURSIVE DeSeq(_, _, _, _, _)
RECURSIVE DeSeqGot(_, _, _, _, _)
\* The value of type ty read next: [d, v].
DeValue(ty, d, le) ==
    IF ty.kind = "array"
    THEN DeSeq([ i \in 1..ty.n |-> TyPath(ty.name) ], d, le, 1, << >>)
    ELSE IF ty.name = "u8" THEN DeU8(d)
    ELSE IF ty.name = "u32" THEN DeU32(d, le)
    ELSE IF ty.name = "String" THEN DeString(d, le)
    ELSE DeSeq([ i \in 1..Len(FieldsOf(ty)) |-> FieldsOf(ty)[i].ty ], d, le, 1, << >>)

\* The elements i.. of a tuple of types tys, read in order after acc.
DeSeq(tys, d, le, i, acc) ==
    IF i > Len(tys) \/ d.st # "ok" THEN [d |-> d, v |-> acc]
    ELSE DeSeqGot(tys, DeValue(tys[i], d, le), le, i, acc)

\* DeSeq once element i is read as e.
DeSeqGot(tys, e, le, i, acc) == DeSeq(tys, e.d, le, i + 1, Append(acc, e.v))

\* What deserialize_from returns once the value is read as e.
DeResult(e) == [st |-> e.d.st, v |-> IF e.d.st = "ok" THEN e.v ELSE << >>]

\* deserialize_from once the header is read as h: the position is reset, and
\* byte 1 of the header picks the byte order or is an InvalidEncapsulation.
DeAfterHeader(T, h) ==
    IF h.d.st # "ok" THEN [st |-> h.d.st, v |-> << >>]
    ELSE IF h.v[2] \notin {0, 1, 2, 3} THEN [st |-> "err", v |-> << >>]
    ELSE DeResult(DeValue(TyPath(T), [h.d EXCEPT !.pos = 0], h.v[2] \in {1, 3}))

\* cdr::deserialize_from::<_, T, _>(reader, Bounded(size)): the header is read
\* as four u8, then the value.  [st, v], st being "ok", "err" or "panic".
deserialize_from(T, reader, size) ==
    DeAfterHeader(T, DeSeq([ i \in 1..4 |-> TyPath("u8") ],
                           [r |-> reader, pos |-> 0, limit |-> size, st |-> "ok"],
                           FALSE, 1, << >>))

\* ------------------------------------------------ digests computed elsewhere
\* ddsrt_md5_* (the transport's C library) and murmur3_32 (a crate) are not
\* code of the repository.  Their values are opaque here: distinct inputs get
\* distinct values, and a digest byte is distinct from every plain byte.

RECURSIVE SeqLess(_, _)
\* The lexicographic order on byte strings, used only to number them.
SeqLess(a, b) ==
    IF Len(b) = 0 THEN FALSE
    ELSE IF Len(a) = 0 THEN TRUE
    ELSE IF a[1] # b[1] THEN a[1] < b[1]
    ELSE SeqLess(Tail(a), Tail(b))

\* The byte strings the callbacks digest or hash in this model: the key
\* encodings of the sample values, with and without their header.
DigestDomain ==
    UNION { UNION { { key_cdr(T, v), SubSeq(key_cdr(T, v), 5, Len(key_cdr(T, v))) } :
                    v \in Values(T) } : T \in StructNames }

DigestRank(input) == Cardinality({ t \in DigestDomain : SeqLess(t, input) })

\* ddsrt_md5_init, _append(input), _finish: the 16 digest bytes.
ddsrt_md5(input) == [ i \in 1..16 |-> 256 + 16 * DigestRank(input) + (i - 1) ]

\* murmur3_32(input, seed 0)
murmur3_32(input) == 1 + DigestRank(input)

\* TopicType::hash: the bucketing hash of a value, over its whole key_cdr.
TopicType_hash(T, v) == murmur3_32(key_cdr(T, v))

\* ------------------------------------------------------------------ KeyHash
\* enum KeyHash { None, CdrKey([u8; 20]), RawKey([u8; 16]) }; the derived
\* PartialEq compares the variant and every byte.

KeyHash_None == [tag |-> "None", k |-> << >>]

KeyHash_CdrKey(k) == [tag |-> "CdrKey", k |-> k]

KeyHash_RawKey(k) == [tag |-> "RawKey", k |-> k]

\* compute_key_hash::<T>(key_cdr, serdata): the value serdata.key_hash gets.
\* key_cdr is what the caller passes, the key encoding after its header.
\* A variant that keeps only the first four bytes of a raw key.
compute_key_hash_four(T, key) ==
    LET cdr_key == IF force_md5_keyhash(T) \/ Len(key) > 16
                   THEN ddsrt_md5(key) \o Zeros(4)
                   ELSE [ i \in 1..20 |-> IF i <= 4 /\ i <= Len(key) THEN key[i] ELSE 0 ]
    IN  KeyHash_CdrKey(cdr_key)

compute_key_hash(T, key) ==
    LET cdr_key == IF force_md5_keyhash(T) \/ Len(key) > 16
                   THEN ddsrt_md5(key) \o Zeros(4)
                   ELSE key \o Zeros(20 - Len(key))
    IN  KeyHash_CdrKey(cdr_key)

\* copy_raw_key_hash: the value serdata.key_hash gets.
copy_raw_key_hash(key) == KeyHash_RawKey(key \o Zeros(16 - Len(key)))

\* -------------------------------------------------------------------- cells
\* SerData<T>: the transport's ddsi_serdata header (type_, kind, hash, refc,
\* iox_chunk, iox_subscriber) and the Rust fields.

NULL == 0

\* The null sertype pointer of a type-erased cell.
NullSertype == "null"

None == [some |-> FALSE, v |-> << >>]

SampleData_Uninitialized == [tag |-> "Uninitialized", v |-> << >>]

SampleData_SDKKey == [tag |-> "SDKKey", v |-> << >>]

SampleData_SDKData(v) == [tag |-> "SDKData", v |-> v]

SampleData_SHMData(v) == [tag |-> "SHMData", v |-> v]

\* SerData::new(sertype, kind): ddsi_serdata_init sets the type, the kind, a
\* hash of 0 and a reference count of 1; the Rust fields get their defaults.
SerData_new(sertype, kind) ==
    [type_ |-> sertype, kind |-> kind, hash |-> 0, refc |-> 1,
     iox_chunk |-> NULL, iox_subscriber |-> NULL,
     sample |-> SampleData_Uninitialized, cdr |-> None,
     key_hash |-> KeyHash_None, serialized_size |-> None]

\* get_keyhash(serdata, keyhash, _force_md5): the transport's 16-byte buffer
\* afterwards, `out` being what it held before.
get_keyhash(serdata, out) ==
    LET src == CASE serdata.key_hash.tag = "None"   -> << >>
                 [] serdata.key_hash.tag = "CdrKey" -> SubSeq(serdata.key_hash.k, 5, 20)
                 [] serdata.key_hash.tag = "RawKey" -> serdata.key_hash.k
    IN  [ i \in 1..16 |-> IF i <= Len(src) THEN src[i] ELSE out[i] ]

\* eqkey(serdata_a, serdata_b)
eqkey(a, b) == a.key_hash = b.key_hash

\* ------------------------------------------------------ decode constructors

\* The key hashes of a decoded value whose key_cdr is kc: serdata.hash over the
\* whole of it, compute_key_hash over what follows its four-byte header.
WithKey(T, serdata, kc) ==
    [serdata EXCEPT !.hash = murmur3_32(kc),
                    !.key_hash = compute_key_hash(T, SubSeq(kc, 5, Len(kc)))]

\* A variant that leaves the key hashes to be computed on first use.
Decoded_lazy(T, serdata, dec) ==
    IF dec.st = "panic" THEN [st |-> "panic", cell |-> serdata]
    ELSE IF dec.st = "ok"
    THEN [st |-> "ok", cell |-> [serdata EXCEPT !.sample = SampleData_SDKData(dec.v)]]
    ELSE [st |-> "null", cell |-> serdata]

\* A variant that computes the key hashes whether or not the type has a key.
Decoded_keyed(T, serdata, dec) ==
    IF dec.st = "panic" THEN [st |-> "panic", cell |-> serdata]
    ELSE IF dec.st = "ok"
    THEN [st |-> "ok",
          cell |-> [WithKey(T, serdata, key_cdr(T, dec.v))
                      EXCEPT !.sample = SampleData_SDKData(dec.v)]]
    ELSE [st |-> "null", cell |-> serdata]

\* A variant that returns the cell of a failed attempt instead of null.
Decoded_leak(T, serdata, dec) ==
    IF dec.st = "panic" THEN [st |-> "panic", cell |-> serdata]
    ELSE IF dec.st = "ok"
    THEN [st |-> "ok",
          cell |-> [(IF has_key(T) THEN WithKey(T, serdata, key_cdr(T, dec.v)) ELSE serdata)
                      EXCEPT !.sample = SampleData_SDKData(dec.v)]]
    ELSE [st |-> "ok", cell |-> serdata]

\* The `if let Ok(decoded)` shared by serdata_from_fragchain and
\* serdata_from_iov: [st, cell], st being "ok" (the cell is returned), "null"
\* (a null pointer is returned, the Box is dropped) or "panic".
Decoded(T, serdata, dec) ==
    IF dec.st = "panic" THEN [st |-> "panic", cell |-> serdata]
    ELSE IF dec.st = "ok"
    THEN [st |-> "ok",
          cell |-> [(IF has_key(T) THEN WithKey(T, serdata, key_cdr(T, dec.v)) ELSE serdata)
                      EXCEPT !.sample = SampleData_SDKData(dec.v)]]
    ELSE [st |-> "null", cell |-> serdata]

\* The reader over the slices, the decode, and what becomes of the cell.
DecodeInto(T, serdata, sg_list, size) ==
    Decoded(T, serdata, deserialize_from(T, SGReader_new(sg_list), size))

\* serdata_from_iov(sertype, kind, niov, iov, size)
serdata_from_iov(T, kind, iov, size) ==
    DecodeInto(T, SerData_new(T, kind), iov, size)

\* The loop of serdata_from_fragchain over the chain from fragment i on, off
\* being the offset gathered so far: the slices, or the failed assertion.
RECURSIVE GatherFragchain(_, _, _, _, _)
GatherFragchain(chain, i, off, size, sg_list) ==
    IF i > Len(chain) THEN [panic |-> FALSE, sg_list |-> sg_list]
    ELSE IF chain[i].maxp1 > off
    THEN IF chain[i].maxp1 > size
         THEN [panic |-> TRUE, sg_list |-> sg_list]
         ELSE GatherFragchain(chain, i + 1, chain[i].maxp1, size,
                  Append(sg_list, SubSeq(chain[i].payload, (off - chain[i].min) + 1,
                                         chain[i].maxp1 - chain[i].min)))
    ELSE GatherFragchain(chain, i + 1, off, size, sg_list)

\* serdata_from_fragchain once its loop is over with g.
Gathered(T, kind, g, size) ==
    IF g.panic THEN [st |-> "panic", cell |-> SerData_new(T, kind)]
    ELSE DecodeInto(T, SerData_new(T, kind), g.sg_list, size)

\* serdata_from_fragchain(sertype, kind, fragchain, size)
serdata_from_fragchain(T, kind, chain, size) ==
    IF chain[1].min # 0 THEN [st |-> "panic", cell |-> SerData_new(T, kind)]
    ELSE Gathered(T, kind, GatherFragchain(chain, 1, 0, size, << >>), size)

\* -------------------------------------------------------- other constructors

\* A variant that stores the token at the start of the 20 bytes.
serdata_from_keyhash_unpadded(T, keyhash) ==
    IF force_md5_keyhash(T)
    THEN [st |-> "null", cell |-> SerData_new(T, "SDK_KEY")]
    ELSE [st |-> "ok",
          cell |-> [SerData_new(T, "SDK_KEY") EXCEPT
                      !.sample = SampleData_SDKKey,
                      !.key_hash = KeyHash_CdrKey(keyhash \o Zeros(4))]]

\* serdata_from_keyhash(sertype, keyhash)
serdata_from_keyhash(T, keyhash) ==
    IF force_md5_keyhash(T)
    THEN [st |-> "null", cell |-> SerData_new(T, "SDK_KEY")]
    ELSE [st |-> "ok",
          cell |-> [SerData_new(T, "SDK_KEY") EXCEPT
                      !.sample = SampleData_SDKKey,
                      !.key_hash = KeyHash_CdrKey(Zeros(4) \o keyhash)]]

\* serdata_from_sample(sertype, kind, sample) for the kind dds_write passes
\* (SDK_DATA) and a sample slot that owns the value v.
serdata_from_sample(T, kind, v) ==
    IF kind = "SDK_DATA"
    THEN [st |-> "ok", cell |-> [SerData_new(T, kind) EXCEPT !.sample = SampleData_SDKData(v)]]
    ELSE [st |-> "panic", cell |-> SerData_new(T, kind)]

\* from_iox_buffer(sertype, kind, sub, buffer) (feature shm): buffer is the
\* chunk, holding the value v and, in its iceoryx header, the token keyhash.
from_iox_buffer(T, kind, sub, buffer, v, keyhash) ==
    LET d == SerData_new(T, kind) IN
    IF sub = NULL
    THEN [st |-> "ok", cell |-> [d EXCEPT !.iox_chunk = buffer,
                                          !.sample = SampleData_SHMData(v)]]
    ELSE [st |-> "ok", cell |-> [d EXCEPT !.iox_chunk = buffer,
                                          !.iox_subscriber = sub,
                                          !.key_hash = copy_raw_key_hash(keyhash),
                                          !.sample = SampleData_SHMData(v)]]

\* A variant that copies the key hash but not the bucketing hash.
serdata_to_untyped_nohash(serdata) ==
    [SerData_new(serdata.type_, "SDK_KEY") EXCEPT
        !.type_ = NullSertype,
        !.sample = SampleData_SDKKey,
        !.key_hash = serdata.key_hash]

\* serdata_to_untyped(serdata): the new cell.
serdata_to_untyped(serdata) ==
    [SerData_new(serdata.type_, "SDK_KEY") EXCEPT
        !.type_ = NullSertype,
        !.sample = SampleData_SDKKey,
        !.key_hash = serdata.key_hash,
        !.hash = serdata.hash]

\* ------------------------------------------- size, to_ser, to_ser_ref, unref
\* Serializer::serialize_str / serialize_char of the cdr crate refuse text
\* that is not ASCII; every other value of these types is accepted.
RECURSIVE Serializable(_, _)
Serializable(ty, v) ==
    IF ty.kind = "array"
    THEN \A i \in 1..ty.n : Serializable(TyPath(ty.name), v[i])
    ELSE IF ty.name \in {"u8", "u32"} THEN TRUE
    ELSE IF ty.name = "String" THEN \A i \in 1..Len(v) : v[i] < 128
    ELSE \A i \in 1..Len(FieldsOf(ty)) : Serializable(FieldsOf(ty)[i].ty, v[i])

RECURSIVE SizeValue(_, _, _)
RECURSIVE SizeSeq(_, _, _, _)
\* cdr's SizeChecker: the position after the value v of type ty, counted from
\* position pos of the payload, padding included.
SizeValue(ty, v, pos) ==
    IF ty.kind = "array"
    THEN SizeSeq([ i \in 1..ty.n |-> TyPath(ty.name) ], v, pos, 1)
    ELSE IF ty.name = "u8" THEN pos + 1
    ELSE IF ty.name = "u32" THEN (pos + ((4 - (pos % 4)) % 4)) + 4
    ELSE IF ty.name = "String" THEN (pos + ((4 - (pos % 4)) % 4)) + 4 + Len(v) + 1
    ELSE SizeSeq([ i \in 1..Len(FieldsOf(ty)) |-> FieldsOf(ty)[i].ty ], v, pos, 1)

SizeSeq(tys, vs, pos, i) ==
    IF i > Len(tys) THEN pos
    ELSE SizeSeq(tys, vs, SizeValue(tys[i], vs[i], pos), i + 1)

\* cdr::calc_serialized_size::<T>(value): the payload and the 4-byte header.
calc_serialized_size(T, v) == SizeValue(TyPath(T), v, 0) + 4

\* Some(size) of serialized_size: Option<u32>.
SomeSize(n) == [some |-> TRUE, v |-> << n >>]

\* Some(buffer) of cdr: Option<Vec<u8>>, the Vec with the capacity it was
\* allocated with.
SomeCdr(bytes, cap) == [some |-> TRUE, v |-> bytes, cap |-> cap]

\* KeyHash::key_length
KeyHash_key_length(key_hash) == Len(key_hash.k)

\* get_size(serdata): the size returned and the cell afterwards.
get_size(serdata) ==
    CASE serdata.sample.tag = "Uninitialized" -> [size |-> 0, cell |-> serdata]
      [] serdata.sample.tag = "SDKKey" ->
            [size |-> KeyHash_key_length(serdata.key_hash), cell |-> serdata]
      [] serdata.sample.tag = "SDKData" ->
            [size |-> calc_serialized_size(serdata.type_, serdata.sample.v),
             cell |-> [serdata EXCEPT !.serialized_size =
                          SomeSize(calc_serialized_size(serdata.type_, serdata.sample.v))]]
      [] serdata.sample.tag = "SHMData" -> [size |-> 0, cell |-> serdata]

\* The buffer buf with the bytes src written from offset on.
WriteAt(buf, offset, src) ==
    [ i \in 1..Len(buf) |->
        IF i > offset /\ i <= offset + Len(src) THEN src[i - offset] ELSE buf[i] ]

\* cdr::serialize_into(&mut buf[offset..offset + size], value, Bounded(size)):
\* an error when the value is refused or needs more than size bytes.
serialize_into(T, v, buf, offset, size) ==
    IF Serializable(TyPath(T), v) /\ calc_serialized_size(T, v) <= size
    THEN [st |-> "ok", buf |-> WriteAt(buf, offset, Serialize(T, v))]
    ELSE [st |-> "panic", buf |-> buf]

\* serdata_to_ser(serdata, size, offset, buf): the transport's buffer
\* afterwards, or the panic.
serdata_to_ser(serdata, size, offset, buf) ==
    IF size = 0 THEN [st |-> "ok", buf |-> buf]
    ELSE CASE serdata.sample.tag = "Uninitialized" -> [st |-> "panic", buf |-> buf]
           [] serdata.sample.tag = "SDKKey" ->
                 IF serdata.key_hash.tag = "None" THEN [st |-> "ok", buf |-> buf]
                 ELSE [st |-> "ok",
                       buf |-> WriteAt(buf, offset, SubSeq(serdata.key_hash.k, 1, size))]
           [] serdata.sample.tag \in {"SDKData", "SHMData"} ->
                 serialize_into(serdata.type_, serdata.sample.v, buf, offset, size)

\* `(size + 3) & !3`
Align4(size) == ((size + 3) \div 4) * 4

\* serialize_type(sample, maybe_size): the Vec, whichever branch makes it, or
\* the error. With a size the Vec is allocated with the size rounded up to a
\* multiple of 4, without one cdr::serialize allocates what the encoding
\* takes.
serialize_type(T, v, maybe_size) ==
    IF Serializable(TyPath(T), v)
    THEN [ok |-> TRUE, data |-> Serialize(T, v),
          cap |-> IF maybe_size.some THEN Align4(maybe_size.v[1])
                  ELSE Len(Serialize(T, v))]
    ELSE [ok |-> FALSE, data |-> << >>, cap |-> 0]

\* `serdata.cdr = serialize_type(..).ok()` of serdata_to_ser_ref.
FillCdr(serdata) ==
    LET res == serialize_type(serdata.type_, serdata.sample.v, serdata.serialized_size) IN
    [serdata EXCEPT !.cdr = IF res.ok THEN SomeCdr(res.data, res.cap) ELSE None]

\* ddsi_serdata_addref and ddsi_serdata_removeref of the transport.
ddsi_serdata_addref(serdata) == [serdata EXCEPT !.refc = @ + 1]

ddsi_serdata_removeref(serdata) == [serdata EXCEPT !.refc = @ - 1]

\* The end of the slice serdata_to_ser_ref takes of a Decoded cell's buffer of
\* len bytes.
ClampLast(offset, size, len) ==
    IF offset + size > len - 1 THEN len - 1 ELSE offset + size

\* What serdata_to_ser_ref does once the buffer is there (or is not): the
\* iovec (base as an offset into the buffer, iov_len), the slice taken, and
\* the reference added.
ViewOf(d, offset, size) ==
    CASE d.sample.tag = "SDKKey" ->
            [st |-> "ok", cell |-> ddsi_serdata_addref(d),
             iov_base |-> 0, iov_len |-> Len(d.key_hash.k), slice |-> d.key_hash.k]
      [] d.sample.tag = "SDKData" ->
            IF ~d.cdr.some
            THEN [st |-> "null", cell |-> d, iov_base |-> 0, iov_len |-> 0, slice |-> << >>]
            ELSE IF offset > ClampLast(offset, size, Len(d.cdr.v))
            THEN [st |-> "panic", cell |-> d, iov_base |-> 0, iov_len |-> 0, slice |-> << >>]
            ELSE [st |-> "ok", cell |-> ddsi_serdata_addref(d),
                  iov_base |-> offset, iov_len |-> size,
                  slice |-> SubSeq(d.cdr.v, offset + 1,
                                   ClampLast(offset, size, Len(d.cdr.v)))]
      [] d.sample.tag = "SHMData" ->
            IF ~d.cdr.some
            THEN [st |-> "null", cell |-> d, iov_base |-> 0, iov_len |-> 0, slice |-> << >>]
            ELSE IF offset + size > Len(d.cdr.v)
            THEN [st |-> "panic", cell |-> d, iov_base |-> 0, iov_len |-> 0, slice |-> << >>]
            ELSE [st |-> "ok", cell |-> ddsi_serdata_addref(d),
                  iov_base |-> offset, iov_len |-> size,
                  slice |-> SubSeq(d.cdr.v, offset + 1, offset + size)]

\* A variant that takes the reference before it knows there is a buffer.
serdata_to_ser_ref_early(serdata, offset, size) ==
    LET r == IF serdata.sample.tag \in {"SDKData", "SHMData"} /\ ~serdata.cdr.some
             THEN ViewOf(FillCdr(serdata), offset, size)
             ELSE ViewOf(serdata, offset, size)
    IN  IF r.st = "null" THEN [r EXCEPT !.cell = ddsi_serdata_addref(r.cell)] ELSE r

\* serdata_to_ser_ref(serdata, offset, size, iov) run by one thread from start
\* to end.
serdata_to_ser_ref(serdata, offset, size) ==
    IF serdata.sample.tag = "Uninitialized"
    THEN [st |-> "panic", cell |-> serdata, iov_base |-> 0, iov_len |-> 0, slice |-> << >>]
    ELSE IF serdata.sample.tag \in {"SDKData", "SHMData"} /\ ~serdata.cdr.some
    THEN ViewOf(FillCdr(serdata), offset, size)
    ELSE ViewOf(serdata, offset, size)

\* serdata_to_ser_unref(serdata, iov)
serdata_to_ser_unref(serdata) == ddsi_serdata_removeref(serdata)

\* --------------------------------------------------- Sample<T>, to_sample
\* Sample::set_serdata(serdata), the slot's part: the pointer replaces
\* whatever the slot held.
Sample_set_serdata(sample, ptr) == [sample EXCEPT !.serdata = ptr]

\* Sample::clear(): takes the sample storage, nothing else.
Sample_clear(sample) == [sample EXCEPT !.sample = FALSE]

\* Sample::set_serdata(serdata): the cell and the slot afterwards.
set_serdata(serdata, sample, ptr) ==
    [cell |-> ddsi_serdata_addref(serdata), sample |-> Sample_set_serdata(sample, ptr)]

\* serdata_to_sample(serdata_ptr, sample, ..) for the cell at ptr, whose
\* chunk, if it has one, holds the value itself (not its serialized form):
\* what it returns, the cell and the slot afterwards.
serdata_to_sample(serdata, sample, ptr) ==
    LET d == IF serdata.iox_chunk # NULL
             THEN [serdata EXCEPT !.sample = SampleData_SHMData(serdata.sample.v)]
             ELSE serdata
    IN  IF d.sample.tag \in {"SDKData", "SHMData"}
        THEN [ret |-> FALSE, cell |-> set_serdata(d, sample, ptr).cell,
              sample |-> set_serdata(d, sample, ptr).sample]
        ELSE [ret |-> TRUE, cell |-> d, sample |-> sample]

\* --------------------------------------------------- what the transport sends

\* One value of each struct, used where the shape of the input is varied.
ShapeValue(T) == CHOOSE v \in Values(T) : TRUE

BadHeader(b) == [b EXCEPT ![2] = 9]

\* A Point in the little-endian representation (header byte 1 is 1).
PointLe(v) == << 0, 1, 0, 0 >> \o U32Le(v[1]) \o U32Le(v[2])

\* The iov lists and sizes passed to from_iov for struct T: every value in one
\* slice; one value split in two, with an empty slice before or after it, cut
\* short, with an unknown header, and under a size one byte short; no slice.
IovInputs(T) ==
    { [iov |-> << Serialize(T, v) >>, size |-> Len(Serialize(T, v))] : v \in Values(T) }
    \cup
    ( LET b == Serialize(T, ShapeValue(T))
          n == Len(b)
      IN  { [iov |-> << SubSeq(b, 1, 6), SubSeq(b, 7, n) >>, size |-> n],
            [iov |-> << << >>, b >>, size |-> n],
            [iov |-> << b, << >> >>, size |-> n],
            [iov |-> << SubSeq(b, 1, n - 1) >>, size |-> n],
            [iov |-> << BadHeader(b) >>, size |-> n],
            [iov |-> << b >>, size |-> n - 1],
            [iov |-> << >>, size |-> 0] } )
    \cup
    ( IF T = "Point"
      THEN { [iov |-> << PointLe(ShapeValue(T)) >>, size |-> 12] }
      ELSE {} )

\* struct nn_rdata: the bytes [min, maxp1) of the message b.
Rdata(b, min, maxp1) == [min |-> min, maxp1 |-> maxp1, payload |-> SubSeq(b, min + 1, maxp1)]

\* The fragment chains and sizes passed to from_fragments for struct T.  The
\* defragmenter hands over chains without gaps; fragments may overlap, be
\* empty, and the claims name a first fragment not at offset 0 and fragments
\* past `size`.
FragInputs(T) ==
    LET b == Serialize(T, ShapeValue(T))
        n == Len(b)
    IN  { [chain |-> << Rdata(b, 0, n) >>, size |-> n],
          [chain |-> << Rdata(b, 0, 6), Rdata(b, 6, n) >>, size |-> n],
          [chain |-> << Rdata(b, 0, 6), Rdata(b, 4, n) >>, size |-> n],
          [chain |-> << Rdata(b, 0, 6), Rdata(b, 2, 5), Rdata(b, 6, n) >>, size |-> n],
          [chain |-> << Rdata(b, 0, 0), Rdata(b, 0, n) >>, size |-> n],
          [chain |-> << Rdata(b, 0, 0) >>, size |-> 0],
          [chain |-> << Rdata(b, 0, n - 1) >>, size |-> n - 1],
          [chain |-> << Rdata(BadHeader(b), 0, n) >>, size |-> n],
          [chain |-> << Rdata(b, 2, n) >>, size |-> n],
          [chain |-> << Rdata(b, 0, n) >>, size |-> n - 1] }

\* The 16-byte tokens the transport passes to from_keyhash and finds in a
\* chunk's header: the id 0x12345678 zero-padded, and 1, 2, .., 16.
KeyhashTokens == { << 18, 52, 86, 120 >> \o Zeros(12), [ i \in 1..16 |-> i ] }

\* The token in the iceoryx header of the chunk handed to from_iox_buffer.
ChunkToken == << 18, 52, 86, 120 >> \o Zeros(12)

\* What from_iov and from_fragments return for each input above: the handlers
\* read no state, so their results are tabulated once.
IovReturn ==
    [ T \in StructNames |->
        [ inp \in IovInputs(T) |-> serdata_from_iov(T, "SDK_DATA", inp.iov, inp.size) ] ]

FragReturn ==
    [ T \in StructNames |->
        [ inp \in FragInputs(T) |-> serdata_from_fragchain(T, "SDK_DATA", inp.chain, inp.size) ] ]

\* ------------------------------------------------------------------- state

VARIABLES
    cells,     \* the cells the transport holds: cell id -> SerData
    last,      \* the last callback: its arguments and what it returned
    crashed,   \* a callback panicked: the process is gone
    sg,        \* a scatter-gather reader being read on its own
    views,     \* the views to_ser_ref handed out and to_ser_unref has not taken back
    serialized, \* cell id -> how many times serdata.cdr was assigned a buffer
    slots,     \* the Sample<T> slots of a SampleBuffer
    held,      \* cell id -> the references the transport itself holds
    freed,     \* cell id -> how many times free_serdata ran on the cell
    threads,   \* the transport's threads inside serdata_to_ser_ref
    handles,   \* the Loaned<T> handles the application got from loan()
    onloan,    \* buffer address -> the handle the transport loaned it to, or none
    bufs,      \* buffer address -> what the memory of the buffer holds
    published, \* the samples dds_write published, in order
    boxes,     \* the Sample<T> objects realloc_samples allocated: address -> Sample
    array,     \* the array of sample pointers the transport got from realloc_samples
    sertypes,  \* the SerType<T> allocations of DdsTopic::create: address -> adapter
    topics,    \* the topics the transport created, each with the adapter it uses
    entities,  \* the entities of the transport that are alive
    waitset, \* the waitset of the transport, what is attached to it and its trigger
    rcells,  \* the cells made of the samples that reached the reader, in order of arrival
    rhc,  \* the reader's cache, the ids of the cells not taken yet
    sbufs,  \* the SampleBuffers of the application
    dds_reader,  \* the reader entity, alive or deleted, with the callbacks it still has to run
    inner,  \* what the Mutex of an async reader guards, and who holds the lock
    futs,  \* the SampleArrayFutures of the application
    woken  \* the futures whose waker was woken and that were not polled since

vars == << cells, last, crashed, sg, views, serialized, slots, held, freed, threads,
           handles, onloan, bufs, published, boxes, array,
           sertypes, topics,
           entities, waitset,
           rcells, rhc, sbufs, dds_reader, inner, futs, woken >>

\* What the callbacks on cells leave alone.
sgVars == << sg >>

\* What belongs to the sending side, to the sample slots and to the threads.
serVars == << views, serialized >>

slotVars == << slots, held, freed >>

thrVars == << threads >>

\* What belongs to the loans of a writer.
loanVars == << handles, onloan, bufs, published >>

\* What belongs to the sample array of a reader's loan.
arrVars == << boxes, array >>

\* What belongs to the topics and their type adapters.
topicVars == << sertypes, topics >>

\* What belongs to the waitset.
wsVars == << entities, waitset >>

\* What belongs to the reader, its sample buffers and its futures.
readVars == << rcells, rhc, sbufs, dds_reader, inner, futs, woken >>

\* The cells held at once, the slots of the sample buffer, the transport's
\* threads, and the largest reference count followed.
MaxSlots == 2

MaxThreads == 2

MaxRefs == 3

CellIds == 1..MaxCells

SlotIds == 1..MaxSlots

ThreadIds == 1..MaxThreads

\* The handles followed at once, the addresses the transport loans buffers
\* at, the samples published, and the operations followed per handle.
MaxHandles == 2

MaxAddrs == 2

MaxPublished == 2

MaxOps == 4

HandleIds == 1..MaxHandles

Addrs == 1..MaxAddrs

\* A handle slot before loan() filled it.
Loaned_none == [st |-> "none", p |-> NULL, entity |-> "none", wrote |-> "uninit", hist |-> << >>,
                ends |-> 0, net |-> 0]

\* Sample::default(): no serdata, no sample.
Sample_default == [live |-> TRUE, serdata |-> NULL, sample |-> FALSE]

\* The memory of a Sample<T> that is not allocated.
Sample_dead == [live |-> FALSE, serdata |-> NULL, sample |-> FALSE]

\* The addresses Box::new gives Sample<T> objects, and the longest sample
\* array asked for.
MaxBoxes == 3

MaxArray == 2

BoxIds == 1..MaxBoxes

\* The entities that can be attached to the waitset.
MaxEntities == 3

Entities == 1..MaxEntities

\* The samples that reach the reader, the synchronous reads followed, the
\* application's sample buffers and the async reads it issues.
MaxArrivals == 2

MaxReads == 3

MaxBufs == 2

MaxFutures == 2

BufIds == 1..MaxBufs

FutIds == 1..MaxFutures

\* The length each buffer was made with: SampleBuffer::new(2) and
\* SampleBuffer::new(1).
BufLen(b) == IF b = 1 THEN 2 ELSE 1

\* SampleBuffer::new(len): len default samples and as many default
\* dds_sample_info, of which valid_data is followed.
SampleBuffer_new(len) ==
    [buffer |-> [ i \in 1..len |-> Sample_default ], sample_info |-> [ i \in 1..len |-> FALSE ]]

\* The reader after create_async: alive, no callback to run, no deadline
\* missed, no read_now or take_now made.
Reader_new == [alive |-> TRUE, cbs |-> 0, fired |-> FALSE, reads |-> 0]

\* A future that read() or take() has not made yet.
Future_none == [st |-> "none", take |-> FALSE, res |-> [ok |-> FALSE, n |-> 0, err |-> "none", dds |-> "none"]]

\* The type adapters allocated in all.
MaxAdapters == 3

AdapterIds == 1..MaxAdapters

\* The memory of a SerType<T> before SerType::new allocated it.
SerType_none == [st |-> "none", T |-> "none", ops |-> FALSE, serdata_ops |-> FALSE, refs |-> 0]

\* The id that names the address Box::into_raw gives a new cell: the smallest
\* one not in use (none once MaxCells cells are held).
FreeIds ==
    LET free == CellIds \ DOMAIN cells IN
    { i \in free : \A j \in free : i <= j }

Put(id, cell) == [ j \in DOMAIN cells \cup {id} |-> IF j = id THEN cell ELSE cells[j] ]

Init ==
    /\ cells = << >>
    /\ last = [op |-> "none"]
    /\ crashed = FALSE
    /\ sg = [op |-> "none"]
    /\ views = << >>
    /\ serialized = [ c \in CellIds |-> 0 ]
    /\ slots = [ s \in SlotIds |-> Sample_default ]
    /\ held = [ c \in CellIds |-> 0 ]
    /\ freed = [ c \in CellIds |-> 0 ]
    /\ threads = [ t \in ThreadIds |-> [pc |-> "idle"] ]
    /\ handles = [ h \in HandleIds |-> Loaned_none ]
    /\ onloan = [ a \in Addrs |-> NULL ]
    /\ bufs = [ a \in Addrs |-> "uninit" ]
    /\ published = << >>
    /\ boxes = [ b \in BoxIds |-> Sample_dead ]
    /\ array = << >>
    /\ sertypes = [ a \in AdapterIds |-> SerType_none ]
    /\ topics = << >>
    /\ entities = Entities
    /\ waitset = [attached |-> {}, trigger |-> FALSE]
    /\ rcells = << >>
    /\ rhc = << >>
    /\ sbufs = [ b \in BufIds |-> SampleBuffer_new(BufLen(b)) ]
    /\ dds_reader = Reader_new
    /\ inner = [waker |-> NULL, err |-> "Ok", lock |-> NULL]
    /\ futs = [ f \in FutIds |-> Future_none ]
    /\ woken = {}

\* What a constructor callback leaves behind: on "ok" the cell is handed to
\* the transport under `id`, on "null" nothing is, on "panic" the process ends.
Returns(ret, id, call) ==
    /\ cells' = IF ret.st = "ok" THEN Put(id, ret.cell) ELSE cells
    /\ crashed' = (ret.st = "panic")
    /\ last' = [call EXCEPT !.st = ret.st, !.ret = IF ret.st = "ok" THEN id ELSE NULL]
    /\ UNCHANGED << sgVars, serVars, slotVars, thrVars, loanVars, arrVars, topicVars, wsVars, readVars >>

FromIov ==
    /\ ~crashed
    /\ \E T \in StructNames : \E inp \in IovInputs(T) : \E id \in FreeIds :
         Returns(IovReturn[T][inp], id,
                 [op |-> "from_iov", T |-> T, iov |-> inp.iov, size |-> inp.size,
                  st |-> "", ret |-> NULL, before |-> cells])

FromFragchain ==
    /\ ~crashed
    /\ \E T \in StructNames : \E inp \in FragInputs(T) : \E id \in FreeIds :
         Returns(FragReturn[T][inp], id,
                 [op |-> "from_fragchain", T |-> T, chain |-> inp.chain, size |-> inp.size,
                  st |-> "", ret |-> NULL, before |-> cells])

FromKeyhash ==
    /\ ~crashed
    /\ \E T \in StructNames : \E k \in KeyhashTokens : \E id \in FreeIds :
         Returns(serdata_from_keyhash(T, k), id,
                 [op |-> "from_keyhash", T |-> T, keyhash |-> k,
                  st |-> "", ret |-> NULL, before |-> cells])

FromSample ==
    /\ ~crashed
    /\ \E T \in StructNames : \E v \in Values(T) : \E id \in FreeIds :
         Returns(serdata_from_sample(T, "SDK_DATA", v), id,
                 [op |-> "from_sample", T |-> T, v |-> v,
                  st |-> "", ret |-> NULL, before |-> cells])

FromIoxBuffer ==
    /\ ~crashed
    /\ \E T \in StructNames : \E sub \in {NULL, 1} : \E id \in FreeIds :
         Returns(from_iox_buffer(T, "SDK_DATA", sub, 1, ShapeValue(T), ChunkToken), id,
                 [op |-> "from_iox_buffer", T |-> T, sub |-> sub, keyhash |-> ChunkToken,
                  st |-> "", ret |-> NULL, before |-> cells])

\* The transport asks for the type-erased copy of a typed cell it holds.
ToUntyped ==
    /\ ~crashed
    /\ \E c \in DOMAIN cells : \E id \in FreeIds :
         /\ cells[c].type_ # NullSertype
         /\ cells' = Put(id, serdata_to_untyped(cells[c]))
         /\ last' = [op |-> "to_untyped", c |-> c, st |-> "ok", ret |-> id, before |-> cells]
         /\ UNCHANGED << crashed, sgVars, serVars, slotVars, thrVars, loanVars, arrVars, topicVars, wsVars, readVars >>

\* The transport asks for a cell's token, its buffer holding zeros before.
GetKeyhash ==
    /\ ~crashed
    /\ \E c \in DOMAIN cells :
         /\ last' = [op |-> "get_keyhash", c |-> c, st |-> "ok", ret |-> NULL,
                     keyhash |-> get_keyhash(cells[c], Zeros(16))]
         /\ UNCHANGED << cells, crashed, sgVars, serVars, slotVars, thrVars, loanVars, arrVars, topicVars, wsVars, readVars >>

\* The transport compares the keys of two cells of the same type.
Eqkey ==
    /\ ~crashed
    /\ \E a \in DOMAIN cells : \E b \in DOMAIN cells :
         /\ cells[a].type_ = cells[b].type_
         /\ last' = [op |-> "eqkey", a |-> a, b |-> b, st |-> "ok", ret |-> NULL,
                     eq |-> eqkey(cells[a], cells[b])]
         /\ UNCHANGED << cells, crashed, sgVars, serVars, slotVars, thrVars, loanVars, arrVars, topicVars, wsVars, readVars >>

\* free_serdata(serdata): the transport dropped the last reference.
FreeSerdata ==
    /\ ~crashed
    /\ \E c \in DOMAIN cells :
         /\ cells' = [ j \in DOMAIN cells \ {c} |-> cells[j] ]
         /\ last' = [op |-> "free", c |-> c, st |-> "ok", ret |-> NULL]
         /\ UNCHANGED << crashed, sgVars, serVars, slotVars, thrVars, loanVars, arrVars, topicVars, wsVars, readVars >>

Next ==
    \/ FromIov
    \/ FromFragchain
    \/ FromKeyhash
    \/ FromSample
    \/ FromIoxBuffer
    \/ ToUntyped
    \/ GetKeyhash
    \/ Eqkey
    \/ FreeSerdata

Spec == Init /\ [][Next]_vars

\* ------------------------------------------------- the reader read on its own
\* SGReader as a std::io::Read: a caller makes one over a list of slices and
\* calls read with buffers of its choice, as the test scatter_gather does.

\* The longest byte string read, and the largest buffer passed to read.
MaxBytes == 5

MaxBuf == 3

\* The byte strings read: k bytes that all differ.
SGBytes == { [ i \in 1..k |-> 10 + i ] : k \in 0..MaxBytes }

RECURSIVE Splits(_)
\* The lists of non-empty slices that b can be cut into.
Splits(b) ==
    IF Len(b) = 0 THEN { << >> }
    ELSE UNION { { << SubSeq(b, 1, k) >> \o rest : rest \in Splits(SubSeq(b, k + 1, Len(b))) } :
                 k \in 1..Len(b) }

\* The slice lists handed to SGReader::new for b: its cuts into non-empty
\* slices, and those with one empty slice put in somewhere.
SGLists(b) ==
    Splits(b) \cup
    UNION { { SubSeq(l, 1, p) \o << << >> >> \o SubSeq(l, p + 1, Len(l)) : p \in 0..Len(l) } :
            l \in Splits(b) }

\* SGReader::new over a slice list of b; nothing read yet.
SGNew ==
    /\ ~crashed
    /\ sg.op = "none"
    /\ \E b \in SGBytes : \E l \in SGLists(b) :
         sg' = [op |-> "new", b |-> b, r |-> SGReader_new(l), prev |-> SGReader_new(l),
                got |-> << >>, n |-> 0, data |-> << >>, eof |-> FALSE]
    /\ UNCHANGED << cells, last, crashed, serVars, slotVars, thrVars, loanVars, arrVars, topicVars, wsVars, readVars >>

\* One call of read with a buffer of n bytes: `got` collects what the calls
\* returned, `eof` says that a call with a non-empty buffer returned 0.
SGRead ==
    /\ ~crashed
    /\ sg.op # "none"
    /\ \E n \in 0..MaxBuf :
         LET res == SGReader_read(sg.r, n) IN
         /\ sg' = [sg EXCEPT !.op = "read", !.r = res.r, !.prev = sg.r,
                             !.got = IF sg.eof THEN sg.got ELSE sg.got \o res.data,
                             !.n = n, !.data = res.data,
                             !.eof = sg.eof \/ (n > 0 /\ Len(res.data) = 0 /\ ~res.panic)]
         /\ crashed' = res.panic
    /\ UNCHANGED << cells, last, serVars, slotVars, thrVars, loanVars, arrVars, topicVars, wsVars, readVars >>

NextSG ==
    \/ SGNew
    \/ SGRead

SpecSG == Init /\ [][NextSG]_vars

\* ------------------------------------------- one cell, sent and read back
\* The transport holds one cell, asks for its size, has it written out with
\* to_ser or viewed with to_ser_ref, and a peer decodes what was written.

\* The structs and values written in this part: Point, and Named with texts
\* of one and two letters and with the text "e-acute" (0xC3 0xA9).
SerTypes == {"Point", "Named"}

SerSamples(T) ==
    CASE T = "Point" -> { << 1, 0 >>, << 305419896, 7 >> }
      [] T = "Named" -> { << << 97 >>, 0 >>, << << 97, 98 >>, 1 >>, << << 195, 169 >>, 0 >> }

\* What the transport's buffer holds before to_ser writes to it.
Fill == 255

\* The most fragments a written message is cut into.
MaxFrags == 3

RECURSIVE Cuts(_, _)
\* The cuts of b into at most k non-empty pieces.
Cuts(b, k) ==
    IF Len(b) = 0 THEN { << >> }
    ELSE IF k = 0 THEN {}
    ELSE UNION { { << SubSeq(b, 1, n) >> \o rest : rest \in Cuts(SubSeq(b, n + 1, Len(b)), k - 1) }
                 : n \in 1..Len(b) }

\* The lists of fragments a message b arrives in: its cuts, and its cuts with
\* one empty fragment somewhere.
FragLists(b) ==
    Cuts(b, MaxFrags)
      \cup UNION { { SubSeq(l, 1, i) \o << << >> >> \o SubSeq(l, i + 1, Len(l)) : i \in 0..Len(l) }
                   : l \in Cuts(b, MaxFrags) }

RECURSIVE FragStart(_, _)
\* The offset in the message of fragment j of the list l.
FragStart(l, j) == IF j <= 1 THEN 0 ELSE FragStart(l, j - 1) + Len(l[j - 1])

\* The fragment chain of a list of fragments: each nn_rdata with its bounds.
ChainOf(l) ==
    [ j \in 1..Len(l) |->
        [min |-> FragStart(l, j), maxp1 |-> FragStart(l, j) + Len(l[j]), payload |-> l[j]] ]

\* The tags of a cell in the Decoded or the Loaned state.
HoldsValueTag(tag) == tag \in {"SDKData", "SHMData"}

\* The (offset, size) pairs the transport asks views of: the whole of what
\* get_size reports, as it is and rounded up to a multiple of 4, and parts of
\* it.
ViewRequests(d) ==
    LET full == get_size(d).size IN
    { [offset |-> 0, size |-> full], [offset |-> 0, size |-> Align4(full)] }
      \cup (IF full >= 8
            THEN { [offset |-> 0, size |-> 4], [offset |-> 4, size |-> 4],
                   [offset |-> 4, size |-> full - 4] }
            ELSE {})

\* dds_write: from_sample makes the cell of a value the application wrote.
SendSample ==
    /\ ~crashed
    /\ cells = << >>
    /\ \E T \in SerTypes : \E v \in SerSamples(T) : \E id \in FreeIds :
         Returns(serdata_from_sample(T, "SDK_DATA", v), id,
                 [op |-> "from_sample", T |-> T, v |-> v,
                  st |-> "", ret |-> NULL, before |-> cells])

\* A chunk arrives over shared memory: from_iox_buffer makes a Loaned cell.
TakeLoan ==
    /\ ~crashed
    /\ cells = << >>
    /\ \E v \in SerSamples("Point") : \E id \in FreeIds :
         Returns(from_iox_buffer("Point", "SDK_DATA", 1, 1, v, ChunkToken), id,
                 [op |-> "from_iox_buffer", T |-> "Point", sub |-> 1, keyhash |-> ChunkToken,
                  st |-> "", ret |-> NULL, before |-> cells])

\* A disposal notice arrives: from_keyhash makes a KeyOnly cell.
TakeKey ==
    /\ ~crashed
    /\ cells = << >>
    /\ \E k \in KeyhashTokens : \E id \in FreeIds :
         Returns(serdata_from_keyhash("Point", k), id,
                 [op |-> "from_keyhash", T |-> "Point", keyhash |-> k,
                  st |-> "", ret |-> NULL, before |-> cells])

\* The transport asks for a cell's size.
GetSize ==
    /\ ~crashed
    /\ \E c \in DOMAIN cells :
         /\ cells' = Put(c, get_size(cells[c]).cell)
         /\ last' = [op |-> "get_size", c |-> c, size |-> get_size(cells[c]).size,
                     st |-> "ok", ret |-> NULL, before |-> cells]
         /\ UNCHANGED << crashed, sgVars, serVars, slotVars, thrVars, loanVars, arrVars, topicVars, wsVars, readVars >>

\* The transport has the cell written into a buffer of the size it was just
\* told, at offset 0 or behind two bytes of its own.
ToSer ==
    /\ ~crashed
    /\ last.op = "get_size"
    /\ \E offset \in {0, 2} :
         LET r == serdata_to_ser(cells[last.c], last.size, offset,
                                 [ i \in 1..(offset + last.size) |-> Fill ])
         IN  /\ last' = [op |-> "to_ser", c |-> last.c, size |-> last.size, offset |-> offset,
                         buf |-> r.buf, st |-> r.st, ret |-> NULL, before |-> cells]
             /\ crashed' = (r.st = "panic")
             /\ UNCHANGED << cells, sgVars, serVars, slotVars, thrVars, loanVars, arrVars, topicVars, wsVars, readVars >>

\* The transport asks for a view of the cell's bytes.
ToSerRef ==
    /\ ~crashed
    /\ \E c \in DOMAIN cells : \E req \in ViewRequests(cells[c]) :
         LET r == serdata_to_ser_ref(cells[c], req.offset, req.size)
             filled == ~cells[c].cdr.some /\ r.cell.cdr.some
             gen == IF filled THEN serialized[c] + 1 ELSE serialized[c]
         IN  /\ cells[c].refc < MaxRefs
             /\ cells' = Put(c, r.cell)
             /\ serialized' = [serialized EXCEPT ![c] = gen]
             /\ views' = IF r.st = "ok" THEN Append(views, [c |-> c, gen |-> gen]) ELSE views
             /\ crashed' = (r.st = "panic")
             /\ last' = [op |-> "to_ser_ref", c |-> c, offset |-> req.offset, size |-> req.size,
                         st |-> r.st, ret |-> IF r.st = "ok" THEN c ELSE NULL,
                         iov_len |-> r.iov_len, slice |-> r.slice, before |-> cells]
             /\ UNCHANGED << sgVars, slotVars, thrVars, loanVars, arrVars, topicVars, wsVars, readVars >>

\* The transport gives a view back.
ToSerUnref ==
    /\ ~crashed
    /\ \E i \in 1..Len(views) :
         /\ cells' = Put(views[i].c, serdata_to_ser_unref(cells[views[i].c]))
         /\ views' = SubSeq(views, 1, i - 1) \o SubSeq(views, i + 1, Len(views))
         /\ last' = [op |-> "to_ser_unref", c |-> views[i].c, st |-> "ok", ret |-> NULL,
                     before |-> cells]
         /\ UNCHANGED << crashed, serialized, sgVars, slotVars, thrVars, loanVars, arrVars, topicVars, wsVars, readVars >>

\* What a peer's constructor returned for the bytes to_ser wrote: the peer's
\* cell on "ok".
Received(op, r, frags) ==
    /\ last' = [op |-> op, c |-> last.c, T |-> cells[last.c].type_, frags |-> frags,
                size |-> Len(last.buf), st |-> r.st, cell |-> r.cell, ret |-> NULL,
                before |-> cells]
    /\ crashed' = (r.st = "panic")
    /\ UNCHANGED << cells, sgVars, serVars, slotVars, thrVars, loanVars, arrVars, topicVars, wsVars, readVars >>

\* The bytes to_ser wrote for a Decoded cell reach a peer as an iovec list.
ReceiveIov ==
    /\ ~crashed
    /\ last.op = "to_ser" /\ last.st = "ok" /\ last.offset = 0
    /\ cells[last.c].sample.tag = "SDKData"
    /\ \E l \in FragLists(last.buf) :
         Received("receive_iov",
                  serdata_from_iov(cells[last.c].type_, "SDK_DATA", l, Len(last.buf)), l)

\* The bytes to_ser wrote for a Decoded cell reach a peer as a fragment chain.
ReceiveFragchain ==
    /\ ~crashed
    /\ last.op = "to_ser" /\ last.st = "ok" /\ last.offset = 0
    /\ cells[last.c].sample.tag = "SDKData"
    /\ \E l \in FragLists(last.buf) :
         Received("receive_fragchain",
                  serdata_from_fragchain(cells[last.c].type_, "SDK_DATA", ChainOf(l),
                                         Len(last.buf)), l)

NextSer ==
    \/ SendSample
    \/ TakeLoan
    \/ TakeKey
    \/ GetSize
    \/ ToSer
    \/ ToSerRef
    \/ ToSerUnref
    \/ ReceiveIov
    \/ ReceiveFragchain

SpecSer == Init /\ [][NextSer]_vars

\* ------------------------------------------- cells handed to sample slots
\* A reader's SampleBuffer is filled by to_sample from the cells the transport
\* holds, cleared, filled again and dropped; the transport lets go of its own
\* references when it is done with a cell.

\* The id of a new cell: the smallest one never used.
NewIds ==
    LET new == { i \in CellIds : i \notin DOMAIN cells /\ freed[i] = 0 } IN
    { i \in new : \A j \in new : i <= j }

\* ddsi_serdata_removeref on cell c: the count goes down, and free_serdata
\* runs when it reaches zero.
RemoveRef(c) ==
    IF cells[c].refc = 1
    THEN [cells |-> [ j \in DOMAIN cells \ {c} |-> cells[j] ],
          freed |-> [freed EXCEPT ![c] = @ + 1]]
    ELSE [cells |-> Put(c, ddsi_serdata_removeref(cells[c])), freed |-> freed]

\* A message arrives and from_iov makes its Decoded cell; the transport holds
\* the reference the constructor left.
DeliverCell ==
    /\ ~crashed
    /\ \E v \in SerSamples("Point") : \E id \in NewIds :
         LET r == serdata_from_iov("Point", "SDK_DATA", << Serialize("Point", v) >>,
                                   Len(Serialize("Point", v)))
         IN  /\ cells' = Put(id, r.cell)
             /\ held' = [held EXCEPT ![id] = 1]
             /\ last' = [op |-> "from_iov", T |-> "Point", st |-> r.st, ret |-> id,
                         before |-> cells]
             /\ UNCHANGED << crashed, slots, freed, sgVars, serVars, thrVars, loanVars, arrVars, topicVars, wsVars, readVars >>

\* A chunk arrives over shared memory and from_iox_buffer makes its Loaned
\* cell.
DeliverLoan ==
    /\ ~crashed
    /\ \E id \in NewIds :
         /\ cells' = Put(id, from_iox_buffer("Point", "SDK_DATA", 1, 1, << 1, 0 >>,
                                              ChunkToken).cell)
         /\ held' = [held EXCEPT ![id] = 1]
         /\ last' = [op |-> "from_iox_buffer", T |-> "Point", st |-> "ok", ret |-> id,
                     before |-> cells]
         /\ UNCHANGED << crashed, slots, freed, sgVars, serVars, thrVars, loanVars, arrVars, topicVars, wsVars, readVars >>

\* dds_read / dds_take: the transport has a cell it holds put into a slot.
ToSample ==
    /\ ~crashed
    /\ \E c \in DOMAIN cells : \E s \in SlotIds :
         /\ held[c] > 0
         /\ slots[s].live
         /\ cells[c].refc < MaxRefs
         /\ cells' = Put(c, serdata_to_sample(cells[c], slots[s], c).cell)
         /\ slots' = [slots EXCEPT ![s] = serdata_to_sample(cells[c], slots[s], c).sample]
         /\ last' = [op |-> "to_sample", c |-> c, s |-> s, st |-> "ok",
                     ret |-> serdata_to_sample(cells[c], slots[s], c).ret, before |-> cells]
         /\ UNCHANGED << crashed, held, freed, sgVars, serVars, thrVars, loanVars, arrVars, topicVars, wsVars, readVars >>

\* free_samples with DDS_FREE_CONTENTS: the slot is cleared.
FreeSamples ==
    /\ ~crashed
    /\ \E s \in SlotIds :
         /\ slots[s].live
         /\ slots' = [slots EXCEPT ![s] = Sample_clear(slots[s])]
         /\ last' = [op |-> "clear", s |-> s, st |-> "ok", ret |-> NULL, before |-> cells]
         /\ UNCHANGED << cells, crashed, held, freed, sgVars, serVars, thrVars, loanVars, arrVars, topicVars, wsVars, readVars >>

\* The SampleBuffer is dropped, slot by slot: Drop for Sample.
DropSample ==
    /\ ~crashed
    /\ \E s \in SlotIds :
         /\ slots[s].live
         /\ slots' = [slots EXCEPT ![s] = [live |-> FALSE, serdata |-> NULL, sample |-> FALSE]]
         /\ cells' = IF slots[s].serdata = NULL THEN cells ELSE RemoveRef(slots[s].serdata).cells
         /\ freed' = IF slots[s].serdata = NULL THEN freed ELSE RemoveRef(slots[s].serdata).freed
         /\ last' = [op |-> "drop", s |-> s, st |-> "ok", ret |-> NULL, before |-> cells]
         /\ UNCHANGED << crashed, held, sgVars, serVars, thrVars, loanVars, arrVars, topicVars, wsVars, readVars >>

\* The transport lets go of a reference of its own.
TransportUnref ==
    /\ ~crashed
    /\ \E c \in DOMAIN cells :
         /\ held[c] > 0
         /\ held' = [held EXCEPT ![c] = @ - 1]
         /\ cells' = RemoveRef(c).cells
         /\ freed' = RemoveRef(c).freed
         /\ last' = [op |-> "unref", c |-> c, st |-> "ok", ret |-> NULL, before |-> cells]
         /\ UNCHANGED << crashed, slots, sgVars, serVars, thrVars, loanVars, arrVars, topicVars, wsVars, readVars >>

NextSlot ==
    \/ DeliverCell
    \/ DeliverLoan
    \/ ToSample
    \/ FreeSamples
    \/ DropSample
    \/ TransportUnref

SpecSlot == Init /\ [][NextSlot]_vars

\* ------------------------------------- threads inside serdata_to_ser_ref
\* The transport's threads call to_ser_ref on one cell, each at its own pace:
\* a thread looks whether the cell has its buffer, makes and stores one if it
\* saw none, then takes its view and the reference.

\* The threads inside the callback.
Inside == { t \in ThreadIds : threads[t].pc # "idle" }

\* A thread enters serdata_to_ser_ref for a cell holding a value.
ThreadCall ==
    /\ ~crashed
    /\ \E t \in ThreadIds : \E c \in DOMAIN cells : \E req \in ViewRequests(cells[c]) :
         /\ threads[t].pc = "idle"
         /\ HoldsValueTag(cells[c].sample.tag)
         /\ cells[c].refc + Cardinality(Inside) < MaxRefs
         /\ threads' = [threads EXCEPT ![t] = [pc |-> "check", c |-> c,
                                                offset |-> req.offset, size |-> req.size]]
         /\ UNCHANGED << cells, last, crashed, sgVars, serVars, slotVars, loanVars, arrVars, topicVars, wsVars, readVars >>

\* `if serdata.cdr.is_none()`
ThreadCheck ==
    /\ ~crashed
    /\ \E t \in ThreadIds :
         /\ threads[t].pc = "check"
         /\ threads' = [threads EXCEPT ![t].pc =
                           IF cells[threads[t].c].cdr.some THEN "view" ELSE "fill"]
         /\ UNCHANGED << cells, last, crashed, sgVars, serVars, slotVars, loanVars, arrVars, topicVars, wsVars, readVars >>

\* `serdata.cdr = serialize_type(..).ok()`: the buffer the cell had, if any,
\* is dropped.
ThreadFill ==
    /\ ~crashed
    /\ \E t \in ThreadIds :
         /\ threads[t].pc = "fill"
         /\ cells' = Put(threads[t].c, FillCdr(cells[threads[t].c]))
         /\ serialized' = [serialized EXCEPT ![threads[t].c] =
                              IF FillCdr(cells[threads[t].c]).cdr.some THEN @ + 1 ELSE @]
         /\ threads' = [threads EXCEPT ![t].pc = "view"]
         /\ UNCHANGED << last, crashed, views, sgVars, slotVars, loanVars, arrVars, topicVars, wsVars, readVars >>

\* `if let Some(cdr) = &serdata.cdr { .. }` and ddsi_serdata_addref: the
\* thread returns.
ThreadView ==
    /\ ~crashed
    /\ \E t \in ThreadIds :
         LET c == threads[t].c
             r == ViewOf(cells[c], threads[t].offset, threads[t].size)
         IN  /\ threads[t].pc = "view"
             /\ cells' = Put(c, r.cell)
             /\ views' = IF r.st = "ok"
                         THEN Append(views, [c |-> c, gen |-> serialized[c]])
                         ELSE views
             /\ crashed' = (r.st = "panic")
             /\ last' = [op |-> "to_ser_ref", c |-> c, t |-> t, offset |-> threads[t].offset,
                         size |-> threads[t].size, st |-> r.st,
                         ret |-> IF r.st = "ok" THEN c ELSE NULL,
                         iov_len |-> r.iov_len, slice |-> r.slice, before |-> cells]
             /\ threads' = [threads EXCEPT ![t] = [pc |-> "idle"]]
             /\ UNCHANGED << serialized, sgVars, slotVars, loanVars, arrVars, topicVars, wsVars, readVars >>

NextThr ==
    \/ SendSample
    \/ TakeLoan
    \/ ThreadCall
    \/ ThreadCheck
    \/ ThreadFill
    \/ ThreadView
    \/ ToSerUnref

SpecThr == Init /\ [][NextThr]_vars

\* ------------------------------------------------------------------ loans
\* DdsWriter::loan, Loaned::as_mut_ptr, Loaned::assume_init, Drop for Loaned
\* and DdsWriter::return_loan, over a transport that loans buffers at the
\* addresses Addrs, keeps the set of the buffers on loan, and publishes.

\* The topic types of the two writers of test_loan: TestTopic is declared
\* fixed-size, AnotherTopic keeps the default of TopicType::is_fixed_size.
LoanTypes == {"TestTopic", "AnotherTopic"}

is_fixed_size(T) == T = "TestTopic"

\* The values an application writes into a buffer, and what a buffer holds.
LoanValues == {"v1", "v2"}

Contents == LoanValues \cup {"uninit"}

\* impl From<dds_entity_t> for DDSError
DDSError_from(x) ==
    IF x = 0 THEN "DdsOk"
    ELSE IF x = -1 THEN "DdsError"
    ELSE IF x = -2 THEN "Unsupported"
    ELSE IF x = -3 THEN "BadParameter"
    ELSE IF x = -4 THEN "PreconditionNotMet"
    ELSE IF x = -5 THEN "OutOfResources"
    ELSE IF x = -6 THEN "NotEnabled"
    ELSE IF x = -7 THEN "ImmutablePolicy"
    ELSE IF x = -8 THEN "InconsistentPolicy"
    ELSE IF x = -9 THEN "AlreadyDeleted"
    ELSE IF x = -10 THEN "Timeout"
    ELSE IF x = -11 THEN "NoData"
    ELSE IF x = -12 THEN "IllegalOperation"
    ELSE IF x = -13 THEN "NotAllowedBySecurity"
    ELSE IF x > 0 THEN "DdsOk"
    ELSE "DdsError"

\* The transport as an operation finds it: the buffers on loan, the samples
\* published, and the calls the operation has made so far.
TransportNow == [onloan |-> onloan, published |-> published, calls |-> << >>,
                 crashed |-> FALSE]

\* What dds_loan_sample can answer: a buffer that is not on loan, an error
\* code and no buffer, or success and no buffer.
LoanAnswers ==
    { [rc |-> 0, p |-> a] : a \in { b \in Addrs : onloan[b] = NULL } }
        \cup { [rc |-> rc, p |-> NULL] : rc \in {-5, -2, 0} }

\* dds_loan_sample(writer, &p_sample) answering `ans` for the handle h.
dds_loan_sample(T, ans, h) ==
    [T EXCEPT !.onloan = IF ans.rc = 0 /\ ans.p # NULL
                         THEN [@ EXCEPT ![ans.p] = h] ELSE @,
              !.calls = Append(@, [f |-> "dds_loan_sample", p |-> ans.p, rc |-> ans.rc,
                                   loaned |-> NULL])]

\* dds_return_loan(writer, &p, 1): the buffer is released when it is on loan,
\* and the call fails with PRECONDITION_NOT_MET when it is not.
dds_return_loan(T, p) ==
    [T EXCEPT !.onloan = [@ EXCEPT ![p] = NULL],
              !.calls = Append(@, [f |-> "dds_return_loan", p |-> p,
                                   rc |-> IF T.onloan[p] # NULL THEN 0 ELSE -4,
                                   loaned |-> T.onloan[p]])]

\* What dds_write does with a pointer to memory that is not on loan any more:
\* it publishes what it finds there, fails, or takes the process down.
DanglingWrites ==
    { [kind |-> "publish", v |-> c] : c \in Contents }
        \cup { [kind |-> "error", v |-> "uninit"], [kind |-> "crash", v |-> "uninit"] }

\* dds_write(writer, p): a buffer on loan is published as it is and the loan
\* ends; a pointer that is not on loan is read as `ub` says.
dds_write(T, p, ub) ==
    IF T.onloan[p] # NULL
    THEN [T EXCEPT !.onloan = [@ EXCEPT ![p] = NULL],
                   !.published = Append(@, bufs[p]),
                   !.calls = Append(@, [f |-> "dds_write", p |-> p, rc |-> 0,
                                        loaned |-> T.onloan[p]])]
    ELSE [T EXCEPT !.published = IF ub.kind = "publish" THEN Append(@, ub.v) ELSE @,
                   !.crashed = (ub.kind = "crash"),
                   !.calls = Append(@, [f |-> "dds_write", p |-> p,
                                        rc |-> IF ub.kind = "error" THEN -3 ELSE 0,
                                        loaned |-> NULL])]

\* The handle states that hold a buffer.
HoldsBuffer(h) == h.st \in {"Uninitialized", "Initialized"}

\* Loaned::as_mut_ptr
Loaned_as_mut_ptr(h) == IF HoldsBuffer(h) THEN SomeSize(h.p) ELSE None

\* Drop for Loaned: dds_return_loan for a handle holding a buffer, its result
\* ignored.
Loaned_drop(h, T) == IF HoldsBuffer(h) THEN dds_return_loan(T, h.p) ELSE T

\* Loaned::assume_init(mut self) -> Self: a new handle for the same buffer;
\* `self` goes out of scope when the function returns.
Loaned_assume_init(h, T) ==
    [ ret |-> [h EXCEPT !.st = IF HoldsBuffer(h) THEN "Initialized" ELSE "Empty"],
      t |-> Loaned_drop(h, T) ]

\* A loan that asks the transport whatever the type is.
DdsWriter_loan_unchecked(Ty, ans, h, T) ==
    LET T1 == dds_loan_sample(T, ans, h) IN
    IF ans.rc = 0
    THEN IF ans.p = NULL
         THEN [st |-> "panic", err |-> "none", handle |-> Loaned_none, t |-> T1]
         ELSE [st |-> "ok", err |-> "none",
               handle |-> [Loaned_none EXCEPT !.st = "Uninitialized", !.p = ans.p,
                                              !.entity = Ty],
               t |-> T1]
    ELSE [st |-> "err", err |-> DDSError_from(ans.rc), handle |-> Loaned_none, t |-> T1]

\* DdsWriter::loan for a writer of type Ty, the transport answering `ans`;
\* the handle it returns is kept as handle h.
DdsWriter_loan(Ty, ans, h, T) ==
    IF ~is_fixed_size(Ty)
    THEN [st |-> "err", err |-> "Unsupported", handle |-> Loaned_none, t |-> T]
    ELSE LET T1 == dds_loan_sample(T, ans, h) IN
         IF ans.rc = 0
         THEN IF ans.p = NULL
              THEN [st |-> "panic", err |-> "none", handle |-> Loaned_none, t |-> T1]
              ELSE [st |-> "ok", err |-> "none",
                    handle |-> [Loaned_none EXCEPT !.st = "Uninitialized", !.p = ans.p,
                                                   !.entity = Ty],
                    t |-> T1]
         ELSE [st |-> "err", err |-> DDSError_from(ans.rc), handle |-> Loaned_none, t |-> T1]

\* A return_loan that publishes whatever buffer the handle holds.
DdsWriter_return_loan_any(h, T, ub) ==
    LET T1 == IF HoldsBuffer(h) THEN dds_write(T, h.p, ub) ELSE T
        res == IF HoldsBuffer(h) THEN T1.calls[Len(T1.calls)].rc ELSE 0
    IN  [ st |-> IF T1.crashed THEN "panic" ELSE IF res = 0 THEN "ok" ELSE "err",
          err |-> IF res = 0 THEN "none" ELSE DDSError_from(res),
          t |-> IF T1.crashed THEN T1 ELSE Loaned_drop(h, T1) ]

\* DdsWriter::return_loan(&mut self, mut buffer): the call the state of the
\* handle selects, the result made of its code, and `buffer` going out of
\* scope when the function returns.
DdsWriter_return_loan(h, T, ub) ==
    LET T1 == IF h.st = "Uninitialized" THEN dds_return_loan(T, h.p)
              ELSE IF h.st = "Initialized" THEN dds_write(T, h.p, ub)
              ELSE T
        res == IF HoldsBuffer(h) THEN T1.calls[Len(T1.calls)].rc ELSE 0
    IN  [ st |-> IF T1.crashed THEN "panic" ELSE IF res = 0 THEN "ok" ELSE "err",
          err |-> IF res = 0 THEN "none" ELSE DDSError_from(res),
          t |-> IF T1.crashed THEN T1 ELSE Loaned_drop(h, T1) ]

\* The loans the calls of an operation ended.
Released(T) == Cardinality({ i \in 1..Len(T.calls) :
                               T.calls[i].f # "dds_loan_sample" /\ T.calls[i].loaned # NULL })

\* The calls of an operation that end a loan: dds_write and dds_return_loan.
Ending(T) == Cardinality({ i \in 1..Len(T.calls) : T.calls[i].f # "dds_loan_sample" })

\* The handles loan() has not made yet.
FreeHandles == { h \in HandleIds : handles[h].st = "none" }

\* The handles the application holds.
LiveHandles == { h \in HandleIds : HoldsBuffer(handles[h]) /\ Len(handles[h].hist) < MaxOps }

\* What an operation on handle h leaves behind: the handle as `after`, the
\* transport as T.
Loaned_after(h, name, after, T, result) ==
    /\ handles' = [handles EXCEPT ![h] =
                      [after EXCEPT !.hist = Append(handles[h].hist, name),
                                    !.ends = handles[h].ends + Ending(T),
                                    !.net = handles[h].net - Released(T)]]
    /\ onloan' = T.onloan
    /\ published' = T.published
    /\ crashed' = T.crashed
    /\ last' = [op |-> name, h |-> h, was |-> handles[h], calls |-> T.calls,
                st |-> result.st, err |-> result.err,
                before |-> [onloan |-> onloan, published |-> published]]
    /\ UNCHANGED << cells, bufs, sgVars, serVars, slotVars, thrVars, arrVars, topicVars, wsVars, readVars >>

\* writer.loan()
Loan ==
    /\ ~crashed
    /\ \E Ty \in LoanTypes : \E ans \in LoanAnswers : \E h \in FreeHandles :
         LET r == DdsWriter_loan(Ty, ans, h, TransportNow) IN
         /\ \A g \in FreeHandles : h <= g
         /\ handles' = [handles EXCEPT ![h] =
                           IF r.st = "ok"
                           THEN [r.handle EXCEPT !.hist = << "loan" >>, !.net = 1]
                           ELSE @]
         /\ onloan' = r.t.onloan
         /\ crashed' = (r.st = "panic")
         /\ last' = [op |-> "loan", h |-> h, T |-> Ty, ans |-> ans, calls |-> r.t.calls,
                     st |-> r.st, err |-> r.err,
                     before |-> [onloan |-> onloan, published |-> published]]
         /\ UNCHANGED << cells, bufs, published, sgVars, serVars, slotVars, thrVars, arrVars, topicVars, wsVars, readVars >>

\* unsafe { loaned.as_mut_ptr().unwrap().write(v) }
WriteValue ==
    /\ ~crashed
    /\ \E h \in LiveHandles : \E v \in LoanValues :
         /\ Loaned_as_mut_ptr(handles[h]).some
         /\ bufs' = [bufs EXCEPT ![Loaned_as_mut_ptr(handles[h]).v[1]] = v]
         /\ handles' = [handles EXCEPT ![h].wrote = v, ![h].hist = Append(@, "write")]
         /\ last' = [op |-> "write", h |-> h, v |-> v]
         /\ UNCHANGED << cells, crashed, onloan, published, sgVars, serVars, slotVars, thrVars, arrVars, topicVars, wsVars, readVars >>

\* let loaned = loaned.assume_init()
AssumeInit ==
    /\ ~crashed
    /\ \E h \in LiveHandles :
         LET r == Loaned_assume_init(handles[h], TransportNow) IN
         Loaned_after(h, "assume_init", r.ret, r.t, [st |-> "ok", err |-> "none"])

\* writer.return_loan(loaned)
ReturnLoan ==
    /\ ~crashed
    /\ Len(published) < MaxPublished
    /\ \E h \in LiveHandles : \E ub \in DanglingWrites :
         LET r == DdsWriter_return_loan(handles[h], TransportNow, ub) IN
         Loaned_after(h, "return_loan", [handles[h] EXCEPT !.st = "gone"], r.t, r)

\* drop(loaned)
DropLoaned ==
    /\ ~crashed
    /\ \E h \in LiveHandles :
         Loaned_after(h, "drop", [handles[h] EXCEPT !.st = "gone"],
                      Loaned_drop(handles[h], TransportNow), [st |-> "ok", err |-> "none"])

NextLoan ==
    \/ Loan
    \/ WriteValue
    \/ AssumeInit
    \/ ReturnLoan
    \/ DropLoaned

SpecLoan == Init /\ [][NextLoan]_vars


\* ----------------------------------------------------------- sample arrays
\* realloc_samples and free_samples: the transport has the array of a
\* reader's loan made, grown and shrunk, reads cells into its samples, and
\* has it freed, contents only or altogether.

\* Box::into_raw(Box::new(..)): the address of a new Sample<T>, the smallest
\* one not allocated.
NewBox(heap) == CHOOSE b \in BoxIds : ~heap[b].live /\ \A d \in BoxIds : ~heap[d].live => b <= d

RECURSIVE PushDefaults(_, _, _)
\* `for _i in 0..n { new.push(Box::into_raw(Box::new(Sample::default()))) }`
PushDefaults(heap, new, n) ==
    IF n = 0 THEN [array |-> new, boxes |-> heap]
    ELSE PushDefaults([heap EXCEPT ![NewBox(heap)] = Sample_default],
                      Append(new, NewBox(heap)), n - 1)

\* A realloc_samples that constructs every sample of the grown array anew.
realloc_samples_reset(heap, old, new_count) ==
    IF new_count >= Len(old)
    THEN PushDefaults([ b \in BoxIds |->
                          IF \E i \in 1..Len(old) : old[i] = b THEN Sample_default
                          ELSE heap[b] ],
                      old, new_count - Len(old))
    ELSE [array |-> SubSeq(old, 1, new_count), boxes |-> heap]

\* realloc_samples(ptrs, _, old, old_count, new_count): the array written to
\* *ptrs and the Sample<T> objects afterwards. The entries of `old` beyond
\* new_count are pointers, and dropping a pointer does nothing.
realloc_samples(heap, old, new_count) ==
    IF new_count >= Len(old)
    THEN PushDefaults(heap, old, new_count - Len(old))
    ELSE [array |-> SubSeq(old, 1, new_count), boxes |-> heap]

RECURSIVE Sample_drop(_, _, _, _)
\* Drop for Sample<T> on the samples at `ids`, one after the other, and their
\* memory given back: ddsi_serdata_removeref for a sample holding a cell,
\* free_serdata when the count reaches zero.
Sample_drop(ids, heap, cs, fr) ==
    IF ids = << >> THEN [boxes |-> heap, cells |-> cs, freed |-> fr]
    ELSE LET b == Head(ids)
             c == heap[b].serdata
             gone == [heap EXCEPT ![b] = Sample_dead]
         IN  IF c = NULL \/ c \notin DOMAIN cs
             THEN Sample_drop(Tail(ids), gone, cs, fr)
             ELSE IF cs[c].refc = 1
             THEN Sample_drop(Tail(ids), gone, [ j \in DOMAIN cs \ {c} |-> cs[j] ],
                              [fr EXCEPT ![c] = @ + 1])
             ELSE Sample_drop(Tail(ids), gone,
                              [cs EXCEPT ![c] = ddsi_serdata_removeref(@)], fr)

\* dds_free_op_t: DDS_FREE_ALL and DDS_FREE_CONTENTS.
FreeOps == {"DDS_FREE_ALL", "DDS_FREE_CONTENTS"}

\* free_samples(_, ptrs, len, op) on the len samples of the array `ptrs`:
\* with DDS_FREE_ALL_BIT the vector of the samples goes out of scope, without
\* it every sample is cleared and the vector is leaked.
free_samples(heap, ptrs, op, cs, fr) ==
    IF op = "DDS_FREE_ALL"
    THEN Sample_drop(ptrs, heap, cs, fr)
    ELSE [boxes |-> [ b \in BoxIds |->
                        IF \E i \in 1..Len(ptrs) : ptrs[i] = b
                        THEN Sample_clear(heap[b]) ELSE heap[b] ],
          cells |-> cs, freed |-> fr]

\* Sample::try_deref: the value of the cell the sample points at, if it
\* points at one that holds a value.
Sample_try_deref(sample, cs) ==
    IF sample.serdata # NULL
    THEN IF cs[sample.serdata].sample.tag \in {"SDKData", "SHMData"}
         THEN [some |-> TRUE, v |-> << cs[sample.serdata].sample.v >>]
         ELSE None
    ELSE None

\* Sample::get_sample: the sample storage, if the sample has one.
Sample_get_sample(sample) == IF sample.sample THEN [some |-> TRUE, v |-> << >>] ELSE None

\* The transport asks for an array of new_count samples in place of the one
\* it has.
ReallocSamples ==
    /\ ~crashed
    /\ \E new_count \in 0..MaxArray :
         LET r == realloc_samples(boxes, array, new_count) IN
         /\ new_count - Len(array) <= Cardinality({ b \in BoxIds : ~boxes[b].live })
         /\ array' = r.array
         /\ boxes' = r.boxes
         /\ last' = [op |-> "realloc_samples", old |-> array, new_count |-> new_count,
                     st |-> "ok", ret |-> NULL, before |-> cells, boxes |-> boxes]
         /\ UNCHANGED << cells, crashed, sgVars, serVars, slotVars, thrVars, loanVars, topicVars, wsVars, readVars >>

\* dds_read / dds_take with a loan: a cell the transport holds is put into a
\* sample of the array.
ReadInto ==
    /\ ~crashed
    /\ \E c \in DOMAIN cells : \E i \in 1..Len(array) :
         LET r == serdata_to_sample(cells[c], boxes[array[i]], c) IN
         /\ held[c] > 0
         /\ cells[c].refc < MaxRefs
         /\ cells' = Put(c, r.cell)
         /\ boxes' = [boxes EXCEPT ![array[i]] = r.sample]
         /\ last' = [op |-> "to_sample", c |-> c, s |-> i, st |-> "ok", ret |-> r.ret,
                     before |-> cells]
         /\ UNCHANGED << crashed, array, sgVars, serVars, slotVars, thrVars, loanVars, topicVars, wsVars, readVars >>

\* dds_return_loan on the reader: the transport has the contents of the
\* samples freed, or the samples themselves and lets go of the array.
FreeSampleArray ==
    /\ ~crashed
    /\ Len(array) > 0
    /\ \E op \in FreeOps :
         LET r == free_samples(boxes, array, op, cells, freed) IN
         /\ boxes' = r.boxes
         /\ cells' = r.cells
         /\ freed' = r.freed
         /\ array' = IF op = "DDS_FREE_ALL" THEN << >> ELSE array
         /\ last' = [op |-> "free_samples", ptrs |-> array, free_op |-> op, st |-> "ok",
                     ret |-> NULL, before |-> cells, boxes |-> boxes]
         /\ UNCHANGED << crashed, slots, held, sgVars, serVars, thrVars, loanVars, topicVars, wsVars, readVars >>

NextArr ==
    \/ DeliverCell
    \/ TransportUnref
    \/ ReallocSamples
    \/ ReadInto
    \/ FreeSampleArray

SpecArr == Init /\ [][NextArr]_vars


\* ----------------------------------------------------------------- topics
\* DdsTopic::create: SerType::new and into_sertype make the adapter and its
\* two callback tables, dds_create_topic_sertype registers it with the
\* transport or refuses, and the transport calls free_sertype when it lets go
\* of an adapter.

\* The types topics are made for, and whether the name given has a 0 byte in
\* it.
TopicTypes == {"Point", "Named"}

TopicNames == {"test_topic", "bad\\0name"}

\* SerType::new and into_sertype: the adapter and its tables on the heap,
\* owned by the caller through the raw pointer.
SerType_new(T) == [st |-> "rust", T |-> T, ops |-> TRUE, serdata_ops |-> TRUE, refs |-> 1]

\* free_sertype: both tables and the adapter are given back.
free_sertype(sertype) ==
    [sertype EXCEPT !.st = "freed", !.ops = FALSE, !.serdata_ops = FALSE, !.refs = 0]

\* What dds_create_topic_sertype can return: a topic handle, or an error
\* (BAD_PARAMETER, PRECONDITION_NOT_MET, INCONSISTENT_POLICY).
TopicAnswers == {1, -3, -4, -8}

\* The adapter the transport has registered for type T, if it has one.
Registered(S, T) == { a \in AdapterIds : S[a].st = "transport" /\ S[a].T = T }

\* dds_create_topic_sertype(pp, name, &sertype, ..) returning rc for the
\* adapter at a: on success the transport takes the reference of the caller,
\* using the adapter it has registered for the type if there is one and
\* letting go of the new one; on failure the adapter stays with the caller.
dds_create_topic_sertype(S, a, rc) ==
    IF rc < 0 THEN [sertypes |-> S, used |-> NULL]
    ELSE IF Registered(S, S[a].T) = {}
    THEN [sertypes |-> [S EXCEPT ![a].st = "transport"], used |-> a]
    ELSE LET r == CHOOSE b \in Registered(S, S[a].T) : TRUE IN
         [sertypes |-> [S EXCEPT ![a] = free_sertype(@), ![r].refs = @ + 1], used |-> r]

\* DdsTopic::create(participant, name, ..) for type T, the new adapter at a
\* and the transport returning rc.
DdsTopic_create(S, T, name, a, rc) ==
    LET S1 == [S EXCEPT ![a] = SerType_new(T)]
        r  == dds_create_topic_sertype(S1, a, rc)
    IN  IF name # "test_topic"
        THEN [st |-> "panic", err |-> "none", sertypes |-> S1, used |-> NULL]
        ELSE IF rc >= 0
        THEN [st |-> "ok", err |-> "none", sertypes |-> r.sertypes, used |-> r.used]
        ELSE [st |-> "err", err |-> DDSError_from(rc), sertypes |-> r.sertypes, used |-> NULL]

\* The application creates a topic.
CreateTopic ==
    /\ ~crashed
    /\ \E T \in TopicTypes : \E name \in TopicNames : \E rc \in TopicAnswers :
       \E a \in AdapterIds :
         LET r == DdsTopic_create(sertypes, T, name, a, rc) IN
         /\ sertypes[a].st = "none"
         /\ \A b \in AdapterIds : sertypes[b].st = "none" => a <= b
         /\ sertypes' = r.sertypes
         /\ topics' = IF r.st = "ok" THEN Append(topics, r.used) ELSE topics
         /\ crashed' = (r.st = "panic")
         /\ last' = [op |-> "create_topic", T |-> T, name |-> name, rc |-> rc, a |-> a,
                     st |-> r.st, err |-> r.err, used |-> r.used]
         /\ UNCHANGED << cells, sgVars, serVars, slotVars, thrVars, loanVars, arrVars, wsVars, readVars >>

\* A topic is deleted: the transport lets go of its reference to the adapter
\* and calls free_sertype when none is left.
DeleteTopic ==
    /\ ~crashed
    /\ \E i \in 1..Len(topics) :
         LET a == topics[i] IN
         /\ sertypes' = [sertypes EXCEPT ![a] =
                            IF @.refs = 1 THEN free_sertype(@) ELSE [@ EXCEPT !.refs = @ - 1]]
         /\ topics' = [ j \in 1..(Len(topics) - 1) |-> IF j < i THEN topics[j] ELSE topics[j + 1] ]
         /\ last' = [op |-> "delete_topic", a |-> a, st |-> "ok"]
         /\ UNCHANGED << cells, crashed, sgVars, serVars, slotVars, thrVars, loanVars, arrVars, wsVars, readVars >>

NextTopic ==
    \/ CreateTopic
    \/ DeleteTopic

SpecTopic == Init /\ [][NextTopic]_vars


\* ----------------------------------------------------------------- waitset
\* DdsWaitset::attach, detach and set_trigger over the transport's waitset.

\* dds_waitset_attach(waitset, entity, x): DDS_RETCODE_OK and the entity is
\* attached, BAD_PARAMETER for an entity that is not alive,
\* PRECONDITION_NOT_MET for one that is attached already.
dds_waitset_attach(ws, live, e) ==
    IF e \notin live THEN [rc |-> -3, ws |-> ws]
    ELSE IF e \in ws.attached THEN [rc |-> -4, ws |-> ws]
    ELSE [rc |-> 0, ws |-> [ws EXCEPT !.attached = @ \cup {e}]]

\* dds_waitset_detach(waitset, entity)
dds_waitset_detach(ws, live, e) ==
    IF e \notin live THEN [rc |-> -3, ws |-> ws]
    ELSE IF e \notin ws.attached THEN [rc |-> -4, ws |-> ws]
    ELSE [rc |-> 0, ws |-> [ws EXCEPT !.attached = @ \ {e}]]

\* dds_waitset_set_trigger(waitset, trigger)
dds_waitset_set_trigger(ws, trigger) == [rc |-> 0, ws |-> [ws EXCEPT !.trigger = trigger]]

\* `if p > 0 { Ok(()) } else { Err(DDSError::from(p)) }`
WaitsetResult(p) ==
    IF p > 0 THEN [ok |-> TRUE, err |-> "none"] ELSE [ok |-> FALSE, err |-> DDSError_from(p)]

\* DdsWaitset::attach(entity, x)
DdsWaitset_attach(ws, live, e) ==
    [res |-> WaitsetResult(dds_waitset_attach(ws, live, e).rc),
     rc |-> dds_waitset_attach(ws, live, e).rc, ws |-> dds_waitset_attach(ws, live, e).ws]

\* DdsWaitset::detach(entity)
DdsWaitset_detach(ws, live, e) ==
    [res |-> WaitsetResult(dds_waitset_detach(ws, live, e).rc),
     rc |-> dds_waitset_detach(ws, live, e).rc, ws |-> dds_waitset_detach(ws, live, e).ws]

\* DdsWaitset::set_trigger(trigger)
DdsWaitset_set_trigger(ws, trigger) ==
    [res |-> WaitsetResult(dds_waitset_set_trigger(ws, trigger).rc),
     rc |-> dds_waitset_set_trigger(ws, trigger).rc, ws |-> dds_waitset_set_trigger(ws, trigger).ws]

\* What a call on the waitset leaves behind.
WaitsetCall(op, e, r) ==
    /\ waitset' = r.ws
    /\ last' = [op |-> op, e |-> e, rc |-> r.rc, res |-> r.res, st |-> "ok", ret |-> NULL]
    /\ UNCHANGED << cells, crashed, entities, sgVars, serVars, slotVars, thrVars, loanVars,
                    arrVars, topicVars, readVars >>

Attach ==
    /\ ~crashed
    /\ \E e \in Entities : WaitsetCall("attach", e, DdsWaitset_attach(waitset, entities, e))

Detach ==
    /\ ~crashed
    /\ \E e \in Entities : WaitsetCall("detach", e, DdsWaitset_detach(waitset, entities, e))

SetTrigger ==
    /\ ~crashed
    /\ \E trigger \in BOOLEAN :
         WaitsetCall("set_trigger", NULL, DdsWaitset_set_trigger(waitset, trigger))

\* An entity is deleted, with its parent or by the drop of its wrapper: the
\* transport detaches it from the waitset.
DeleteEntity ==
    /\ ~crashed
    /\ \E e \in entities :
         /\ entities' = entities \ {e}
         /\ waitset' = [waitset EXCEPT !.attached = @ \ {e}]
         /\ last' = [op |-> "delete", e |-> e, st |-> "ok", ret |-> NULL]
         /\ UNCHANGED << cells, crashed, sgVars, serVars, slotVars, thrVars, loanVars,
                         arrVars, topicVars, readVars >>

NextWaitset ==
    \/ Attach
    \/ Detach
    \/ SetTrigger
    \/ DeleteEntity

SpecWaitset == Init /\ [][NextWaitset]_vars


\* ------------------------------------------------------------------ reader
\* DdsReader::read_now, take_now and the async read and take over a reader
\* made by create_async: samples reach the reader's cache, the listener's
\* callbacks run on the transport's threads, the application reads into its
\* SampleBuffers and polls its futures.

\* Result<usize, DDSError> and Result<usize, ReaderError>
ReadOk(n) == [ok |-> TRUE, n |-> n, err |-> "none", dds |-> "none"]

ReadErr(e) == [ok |-> FALSE, n |-> 0, err |-> e, dds |-> "none"]

\* Err(ReaderError::DdsError(e))
ReaderError_DdsError(e) == [ok |-> FALSE, n |-> 0, err |-> "DdsError", dds |-> e]

\* What dds_read and dds_take return for a reader that was deleted.
DeletedAnswers == {-3, -9}

RECURSIVE ToSamples(_, _, _, _)
\* The transport has the cells `ids` put into the samples of the buffer,
\* from the first on: to_sample for each.
ToSamples(cs, buffer, ids, i) ==
    IF i > Len(ids) THEN [cells |-> cs, buffer |-> buffer]
    ELSE ToSamples([cs EXCEPT ![ids[i]] = serdata_to_sample(cs[ids[i]], buffer[i], ids[i]).cell],
                   [buffer EXCEPT ![i] = serdata_to_sample(cs[ids[i]], buffer[i], ids[i]).sample],
                   ids, i + 1)

\* dds_read / dds_take(entity, buf, info, buf.len(), buf.len()): the samples
\* in the cache, as many as the buffer takes, are put into the buffer and
\* their infos are written; dds_take removes them from the cache and lets go
\* of the cache's references. A deleted reader gives the error rc.
dds_readn(rd, cache, cs, sb, take, rc) ==
    IF ~rd.alive
    THEN [ret |-> rc, cache |-> cache, cells |-> cs, sb |-> sb, ids |-> << >>]
    ELSE LET n == Min(Len(cache), Len(sb.buffer))
             ids == SubSeq(cache, 1, n)
             d == ToSamples(cs, sb.buffer, ids, 1)
         IN  [ret |-> n,
              cache |-> IF take THEN SubSeq(cache, n + 1, Len(cache)) ELSE cache,
              cells |-> IF take
                        THEN [ c \in DOMAIN d.cells |->
                                 IF \E i \in 1..n : ids[i] = c
                                 THEN ddsi_serdata_removeref(d.cells[c]) ELSE d.cells[c] ]
                        ELSE d.cells,
              sb |-> [buffer |-> d.buffer,
                      sample_info |-> [ i \in DOMAIN sb.sample_info |->
                                          IF i <= n THEN TRUE ELSE sb.sample_info[i] ]],
              ids |-> ids]

\* SampleBuffer::is_valid_sample(index)
is_valid_sample(sb, index) == sb.sample_info[index + 1]

\* DdsReader::readn_from_entity_now(entity, buf, take): the result, and what
\* the transport's call left behind.
readn_from_entity_now(rd, cache, cs, sb, take, rc) ==
    LET r == dds_readn(rd, cache, cs, sb, take, rc) IN
    [res |-> IF r.ret > 0
             THEN IF is_valid_sample(r.sb, 0) THEN ReadOk(r.ret) ELSE ReadErr("NoData")
             ELSE ReadErr("OutOfResources"),
     ret |-> r.ret, cache |-> r.cache, cells |-> r.cells, sb |-> r.sb, ids |-> r.ids]

\* SampleBuffer::iter(): the values of the samples that try_deref finds.
RECURSIVE IterFrom(_, _, _)
IterFrom(buffer, cs, i) ==
    IF i > Len(buffer) THEN << >>
    ELSE IF Sample_try_deref(buffer[i], cs).some
    THEN << Sample_try_deref(buffer[i], cs).v[1] >> \o IterFrom(buffer, cs, i + 1)
    ELSE IterFrom(buffer, cs, i + 1)

SampleBuffer_iter(sb, cs) == IterFrom(sb.buffer, cs, 1)

\* A poll that reads before it looks at the error the callbacks recorded.
SampleArrayFuture_poll_reads_first(inn, rd, cache, cs, sb, take, rc) ==
    LET r == readn_from_entity_now(rd, cache, cs, sb, take, rc) IN
    IF r.res.ok
    THEN [out |-> "ready", res |-> r.res, read |-> TRUE, ret |-> r.ret,
          cache |-> r.cache, cells |-> r.cells, sb |-> r.sb, ids |-> r.ids]
    ELSE IF inn.err # "Ok"
    THEN [out |-> "ready", res |-> ReadErr(inn.err), read |-> TRUE, ret |-> r.ret,
          cache |-> r.cache, cells |-> r.cells, sb |-> r.sb, ids |-> r.ids]
    ELSE [out |-> "pending", res |-> r.res, read |-> TRUE, ret |-> r.ret,
          cache |-> r.cache, cells |-> r.cells, sb |-> r.sb, ids |-> r.ids]

\* SampleArrayFuture::poll up to its match, under the lock: Ready with the
\* recorded error, Ready with what was read, or "pending" when the waker is
\* to be stored.
SampleArrayFuture_poll(inn, rd, cache, cs, sb, take, rc) ==
    IF inn.err # "Ok"
    THEN [out |-> "ready", res |-> ReadErr(inn.err), read |-> FALSE, ret |-> 0,
          cache |-> cache, cells |-> cs, sb |-> sb, ids |-> << >>]
    ELSE LET r == readn_from_entity_now(rd, cache, cs, sb, take, rc) IN
         [out |-> IF ~r.res.ok /\ r.res.err \in {"NoData", "OutOfResources"}
                  THEN "pending" ELSE "ready",
          res |-> IF r.res.ok \/ r.res.err \in {"NoData", "OutOfResources"}
                  THEN r.res ELSE ReaderError_DdsError(r.res.err),
          read |-> TRUE, ret |-> r.ret,
          cache |-> r.cache, cells |-> r.cells, sb |-> r.sb, ids |-> r.ids]

\* `if let Some(waker) = maybe_waker.0.take() { waker.wake() }`
TakeAndWake ==
    /\ woken' = IF inner.waker # NULL THEN woken \cup {inner.waker} ELSE woken

\* A sample a writer published reaches the reader: from_iov makes its cell,
\* the cache stores it, and the data-available callback is due.
Arrive ==
    /\ ~crashed
    /\ dds_reader.alive
    /\ Len(rcells) < MaxArrivals
    /\ \E v \in SerSamples("Point") :
         /\ rcells' = Append(rcells, serdata_from_iov("Point", "SDK_DATA",
                                 << Serialize("Point", v) >>, Len(Serialize("Point", v))).cell)
         /\ rhc' = Append(rhc, Len(rcells) + 1)
         /\ dds_reader' = [dds_reader EXCEPT !.cbs = @ + 1]
         /\ last' = [op |-> "arrive", v |-> v, st |-> "ok", ret |-> NULL]
         /\ UNCHANGED << cells, crashed, sbufs, inner, futs, woken, sgVars, serVars, slotVars,
                         thrVars, loanVars, arrVars, topicVars, wsVars >>

\* The on_data_available closure of create_async, run by a thread of the
\* transport once it has the lock.
DataAvailable ==
    /\ ~crashed
    /\ dds_reader.alive
    /\ dds_reader.cbs > 0
    /\ inner.lock = NULL
    /\ TakeAndWake
    /\ inner' = [inner EXCEPT !.waker = NULL]
    /\ dds_reader' = [dds_reader EXCEPT !.cbs = @ - 1]
    /\ last' = [op |-> "on_data_available", woke |-> inner.waker, st |-> "ok", ret |-> NULL]
    /\ UNCHANGED << cells, crashed, rcells, rhc, sbufs, futs, sgVars, serVars, slotVars,
                    thrVars, loanVars, arrVars, topicVars, wsVars >>

\* The on_requested_deadline_missed closure of create_async.
DeadlineMissed ==
    /\ ~crashed
    /\ dds_reader.alive
    /\ ~dds_reader.fired
    /\ inner.lock = NULL
    /\ TakeAndWake
    /\ inner' = [inner EXCEPT !.waker = NULL, !.err = "RequestedDeadLineMissed"]
    /\ dds_reader' = [dds_reader EXCEPT !.fired = TRUE]
    /\ last' = [op |-> "on_requested_deadline_missed", woke |-> inner.waker,
                st |-> "ok", ret |-> NULL]
    /\ UNCHANGED << cells, crashed, rcells, rhc, sbufs, futs, sgVars, serVars, slotVars,
                    thrVars, loanVars, arrVars, topicVars, wsVars >>

\* The reader is deleted with its parent: its callbacks no longer run.
DeleteReader ==
    /\ ~crashed
    /\ dds_reader.alive
    /\ dds_reader' = [dds_reader EXCEPT !.alive = FALSE, !.cbs = 0]
    /\ last' = [op |-> "delete_reader", st |-> "ok", ret |-> NULL]
    /\ UNCHANGED << cells, crashed, rcells, rhc, sbufs, inner, futs, woken, sgVars, serVars,
                    slotVars, thrVars, loanVars, arrVars, topicVars, wsVars >>

\* read_now(buf) and take_now(buf) on a buffer no future has borrowed.
ReadNow ==
    /\ ~crashed
    /\ dds_reader.reads < MaxReads
    /\ \E b \in BufIds : \E take \in BOOLEAN : \E rc \in DeletedAnswers :
         \E r \in {readn_from_entity_now(dds_reader, rhc, rcells, sbufs[b], take, rc)} :
         /\ futs[b].st \in {"none", "ready"}
         /\ rhc' = r.cache
         /\ rcells' = r.cells
         /\ sbufs' = [sbufs EXCEPT ![b] = r.sb]
         /\ dds_reader' = [dds_reader EXCEPT !.reads = @ + 1]
         /\ last' = [op |-> "read_now", b |-> b, take |-> take, res |-> r.res, ids |-> r.ids,
                     rc |-> r.ret, st |-> "ok", ret |-> NULL]
         /\ UNCHANGED << cells, crashed, inner, futs, woken, sgVars, serVars, slotVars,
                         thrVars, loanVars, arrVars, topicVars, wsVars >>

\* read(samples) and take(samples): the future is made over buffer f, to be
\* polled by its task.
Issue(f) ==
    /\ ~crashed
    /\ futs[f].st = "none"
    /\ \E take \in BOOLEAN :
         /\ futs' = [futs EXCEPT ![f] = [Future_none EXCEPT !.st = "created", !.take = take]]
         /\ last' = [op |-> "issue", f |-> f, take |-> take, st |-> "ok", ret |-> NULL]
    /\ UNCHANGED << cells, crashed, rcells, rhc, sbufs, dds_reader, inner, woken, sgVars, serVars,
                    slotVars, thrVars, loanVars, arrVars, topicVars, wsVars >>

\* The task polls its future, for the first time or because its waker was
\* woken: poll takes the lock, looks at the recorded error and reads. It
\* returns Ready, or keeps the lock to store the waker.
PollRead(f) ==
    /\ ~crashed
    /\ futs[f].st = "created" \/ (futs[f].st = "pending" /\ f \in woken)
    /\ inner.lock = NULL
    /\ \E rc \in DeletedAnswers :
         \E p \in {SampleArrayFuture_poll(inner, dds_reader, rhc, rcells, sbufs[f], futs[f].take, rc)} :
             /\ rhc' = p.cache
             /\ rcells' = p.cells
             /\ sbufs' = [sbufs EXCEPT ![f] = p.sb]
             /\ futs' = [futs EXCEPT ![f].st = IF p.out = "ready" THEN "ready" ELSE "storing",
                                     ![f].res = p.res]
             /\ inner' = [inner EXCEPT !.lock = IF p.out = "ready" THEN NULL ELSE f]
             /\ woken' = woken \ {f}
             /\ last' = [op |-> "poll", f |-> f, out |-> p.out, res |-> p.res, read |-> p.read,
                         rc |-> p.ret, ids |-> p.ids, fired |-> dds_reader.fired,
                         st |-> "ok", ret |-> NULL]
    /\ UNCHANGED << cells, crashed, dds_reader, sgVars, serVars, slotVars, thrVars, loanVars,
                    arrVars, topicVars, wsVars >>

\* `waker.0.replace(ctx.waker().clone()); Poll::Pending`: the waker is
\* stored and the lock is released.
PollStore(f) ==
    /\ ~crashed
    /\ futs[f].st = "storing"
    /\ inner' = [inner EXCEPT !.waker = f, !.lock = NULL]
    /\ futs' = [futs EXCEPT ![f].st = "pending"]
    /\ last' = [op |-> "poll_pending", f |-> f, st |-> "ok", ret |-> NULL]
    /\ UNCHANGED << cells, crashed, rcells, rhc, sbufs, dds_reader, woken, sgVars, serVars,
                    slotVars, thrVars, loanVars, arrVars, topicVars, wsVars >>

\* The async reader: what the transport and the tasks do.
NextAsync ==
    \/ Arrive
    \/ DataAvailable
    \/ DeadlineMissed
    \/ DeleteReader
    \/ \E f \in FutIds : Issue(f)
    \/ \E f \in FutIds : PollRead(f)
    \/ \E f \in FutIds : PollStore(f)

SpecAsync == Init /\ [][NextAsync]_vars

\* What the scheduling owes: the transport's threads run the callbacks that
\* are due, and the executor polls a task that is ready to run and lets a
\* poll finish.
Scheduled ==
    \/ DataAvailable
    \/ \E f \in FutIds : PollRead(f)
    \/ \E f \in FutIds : PollStore(f)

SpecAsyncFair == SpecAsync /\ WF_vars(Scheduled)

\* The reader read synchronously.
NextRead ==
    \/ Arrive
    \/ ReadNow
    \/ DeleteReader

SpecRead == Init /\ [][NextRead]_vars


\* ============================================================ properties

\* The token the transport reads from a cell into a zeroed 16-byte buffer.
Token(cell) == get_keyhash(cell, Zeros(16))

\* A cell a decode constructor built for a keyed type.
IsDecodedKeyed(cell) ==
    /\ cell.type_ # NullSertype
    /\ cell.sample.tag = "SDKData"
    /\ cell.key_hash.tag = "CdrKey"

\* The key encoding of the value a cell holds, after its four-byte header.
KeyBytes(cell) ==
    SubSeq(key_cdr(cell.type_, cell.sample.v), 5, Len(key_cdr(cell.type_, cell.sample.v)))

RECURSIVE Flatten(_)
\* The slices of an iov list, one after the other.
Flatten(list) == IF Len(list) = 0 THEN << >> ELSE list[1] \o Flatten(Tail(list))

\* Whether some fragment of the chain holds the byte at offset o.
Covered(chain, o) == \E i \in 1..Len(chain) : chain[i].min <= o /\ o < chain[i].maxp1

\* The message a fragment chain carries: the bytes at the offsets 0, 1, ..
\* as far as the fragments cover them without a gap.
ChainBytes(chain) ==
    LET top == { n \in 0..32 : \A o \in 0..(n - 1) : Covered(chain, o) }
        len == CHOOSE n \in top : \A m \in top : m <= n
    IN  [ o \in 1..len |->
            LET i == CHOOSE j \in 1..Len(chain) : chain[j].min <= o - 1 /\ o - 1 < chain[j].maxp1
            IN  chain[i].payload[o - chain[i].min] ]

\* The message the last decode call was given, as one contiguous byte string.
LastMessage == IF last.op = "from_iov" THEN Flatten(last.iov) ELSE ChainBytes(last.chain)

LastIsDecode == last.op \in {"from_iov", "from_fragchain"}

\* ------------------------------------------------------------------- C1
\* C1 (as claimed): for any two cells of the same type, however they were
\* made, eqkey is true exactly when the 16-byte tokens get_keyhash reports for
\* them are equal.
C1_EqkeyIffTokensEqual ==
    \A a \in DOMAIN cells : \A b \in DOMAIN cells :
        cells[a].type_ = cells[b].type_ =>
            (eqkey(cells[a], cells[b]) <=> Token(cells[a]) = Token(cells[b]))

\* ------------------------------------------------------------------- C2
\* C2: when from_fragments or from_iov returns a cell, the cell is Decoded and
\* holds the value the message decodes to, and for a keyed type its key hash
\* and its bucketing hash are those of that value already.
C2_DecodedEager ==
    (LastIsDecode /\ last.st = "ok") =>
        LET c   == cells[last.ret]
            msg == deserialize_from(last.T, SGReader_new(<< LastMessage >>), last.size)
        IN  /\ last.ret \notin DOMAIN last.before
            /\ c.type_ = last.T
            /\ c.sample.tag = "SDKData"
            /\ msg.st = "ok"
            /\ c.sample.v = msg.v
            /\ has_key(last.T) =>
                 /\ c.key_hash.tag = "CdrKey"
                 /\ c.key_hash = compute_key_hash(last.T, KeyBytes(c))
                 /\ c.hash = TopicType_hash(last.T, msg.v)

\* A keyed value arrived in two fragments and was decoded.
C2_Witness ==
    /\ last.op = "from_fragchain"
    /\ last.st = "ok"
    /\ Len(last.chain) = 2
    /\ has_key(last.T)
    /\ cells[last.ret].sample.tag = "SDKData"
    /\ cells[last.ret].key_hash.tag = "CdrKey"

\* The slices the decoder of the last decode call was handed.
LastSlices ==
    IF last.op = "from_iov" THEN last.iov
    ELSE GatherFragchain(last.chain, 1, 0, last.size, << >>).sg_list

\* The last decode call reached the decoder and the decoder returned an error.
LastDecodeFailed ==
    /\ LastIsDecode
    /\ last.op = "from_fragchain" =>
         /\ last.chain[1].min = 0
         /\ ~GatherFragchain(last.chain, 1, 0, last.size, << >>).panic
    /\ Len(LastSlices) > 0
    /\ deserialize_from(last.T, SGReader_new(LastSlices), last.size).st = "err"

\* ------------------------------------------------------------------- C3
\* C3: when the decoder reports an error in from_fragments or from_iov, the
\* callback returns null, no cell of the attempt remains and the cells the
\* transport holds are exactly those it held before the call; a decode call
\* that follows and succeeds adds its one cell to the cells held before the
\* failed call, as it would have done without it.
C3_FailedDecodeLeavesNothing ==
    /\ [] ( LastDecodeFailed =>
              /\ last.st = "null"
              /\ last.ret = NULL
              /\ cells = last.before
              /\ ~crashed )
    /\ [][ (LastDecodeFailed /\ last'.op \in {"from_iov", "from_fragchain"} /\ last'.st = "ok") =>
              /\ last'.ret \notin DOMAIN last.before
              /\ DOMAIN cells' = DOMAIN last.before \cup {last'.ret}
              /\ \A i \in DOMAIN last.before : cells'[i] = last.before[i]
              /\ cells'[last'.ret].sample.tag = "SDKData"
         ]_vars

\* A message cut short by one byte failed to decode while a cell was live.
C3_Witness ==
    /\ LastDecodeFailed
    /\ last.st = "null"
    /\ DOMAIN last.before # {}
    /\ Len(LastMessage) > 4

\* ------------------------------------------------------------------- C4
\* C4 (as claimed): whatever iov list or fragment chain the transport passes
\* (an empty list, zero-length fragments, a first fragment that does not start
\* at offset 0, fragments beyond size, a size shorter than the message),
\* from_fragments and from_iov return a cell or null and never panic.
C4_DecodeNeverPanics ==
    LastIsDecode => (last.st \in {"ok", "null"} /\ ~crashed)

RECURSIVE KeyCanVary(_)
KeyCanVary(T) ==
    \E i \in KeyFieldIdx(T) :
        LET ty == Fields(T)[i].ty IN
        \/ ty.name \in {"String", "Vec"}
        \/ (ty.kind = "path" /\ ty.name \in StructNames /\ KeyCanVary(ty.name))

KeyAllFixedPrimitive(T) ==
    /\ KeyFieldIdx(T) # {}
    /\ \A i \in KeyFieldIdx(T) :
         /\ Fields(T)[i].ty.kind = "path"
         /\ Fields(T)[i].ty.name \in {"u8", "u32"}

\* The stored token is a digest.
IsDigest(cell) == \A i \in 1..16 : cell.key_hash.k[i] >= 256

\* The stored token is the zero-padded key encoding.
IsRawCopy(cell) == \A i \in 1..20 : cell.key_hash.k[i] < 256

\* ------------------------------------------------------------------- C6
\* C6 (as claimed): for a decoded cell of a type keyed the raw way,
\* get_keyhash writes the key encoding without its header at the start of
\* the 16-byte output and zeros after it (a u32 key: its four big-endian
\* bytes, then twelve zeros).
C6_RawTokenIsPaddedKey ==
    (last.op = "get_keyhash" /\ last.c \in DOMAIN cells) =>
        LET c == cells[last.c] IN
        (IsDecodedKeyed(c) /\ ~force_md5_keyhash(c.type_) /\ Len(KeyBytes(c)) <= 16) =>
            last.keyhash = KeyBytes(c) \o Zeros(16 - Len(KeyBytes(c)))

\* ------------------------------------------------------------------- C7
\* C7 (as claimed): for a decoded cell of a type keyed the reduced way, the
\* stored token is the MD5 digest of the whole key encoding, header included,
\* and get_keyhash outputs the sixteen digest bytes as they are.
C7_ReducedTokenIsDigest ==
    (last.op = "get_keyhash" /\ last.c \in DOMAIN cells) =>
        LET c == cells[last.c] IN
        (IsDecodedKeyed(c) /\ force_md5_keyhash(c.type_)) =>
            /\ SubSeq(c.key_hash.k, 1, 16) = ddsrt_md5(key_cdr(c.type_, c.sample.v))
            /\ last.keyhash = ddsrt_md5(key_cdr(c.type_, c.sample.v))

\* ------------------------------------------------------------------- C8
\* C8 (as claimed): the scheme belongs to the type: with a key field of
\* variable length (text, or an array or nested key holder that has one)
\* every value's token is a digest; with fixed-width primitive key fields of
\* at most 16 bytes every value's token is the raw copy.
C8_SchemeFixedPerType ==
    \A a \in DOMAIN cells :
        IsDecodedKeyed(cells[a]) =>
            /\ KeyCanVary(cells[a].type_) => IsDigest(cells[a])
            /\ KeyAllFixedPrimitive(cells[a].type_) => IsRawCopy(cells[a])

\* ------------------------------------------------------------------- C9
\* C9 (as claimed): for every keyed type and every 16-byte token k,
\* from_keyhash returns a KeyOnly cell, and get_keyhash on it yields k.
C9_FromKeyhashEveryKeyedType ==
    (last.op = "from_keyhash" /\ has_key(last.T)) =>
        /\ last.st = "ok"
        /\ last.ret \in DOMAIN cells
        /\ cells[last.ret].sample.tag = "SDKKey"
        /\ get_keyhash(cells[last.ret], Zeros(16)) = last.keyhash

\* C9 (amended): for every type whose force_md5_keyhash() is false and every
\* 16-byte token k, from_keyhash returns a new KeyOnly cell, and get_keyhash
\* on it yields k whatever the output buffer held; for a type whose
\* force_md5_keyhash() is true it returns null and makes no cell.
C9_FromKeyhashUnlessForced ==
    last.op = "from_keyhash" =>
        IF force_md5_keyhash(last.T)
        THEN last.st = "null" /\ last.ret = NULL /\ cells = last.before
        ELSE /\ last.st = "ok"
             /\ last.ret \notin DOMAIN last.before
             /\ cells[last.ret].type_ = last.T
             /\ cells[last.ret].kind = "SDK_KEY"
             /\ cells[last.ret].sample.tag = "SDKKey"
             /\ get_keyhash(cells[last.ret], Zeros(16)) = last.keyhash
             /\ get_keyhash(cells[last.ret], [i \in 1..16 |-> 255]) = last.keyhash

\* from_keyhash made a cell for a token with no zero byte in it.
C9_Witness ==
    /\ last.op = "from_keyhash"
    /\ last.st = "ok"
    /\ has_key(last.T)
    /\ last.keyhash = [i \in 1..16 |-> i]
    /\ cells[last.ret].sample.tag = "SDKKey"

\* ------------------------------------------------------------------ C10
\* C10: to_untyped(c) returns a new cell, not c, that is KeyOnly, has no type
\* attached and carries c's key-hash token and bucketing hash; c is as it was.
C10_UntypedCopy ==
    last.op = "to_untyped" =>
        /\ last.ret # last.c
        /\ last.ret \notin DOMAIN last.before
        /\ cells[last.ret].type_ = NullSertype
        /\ cells[last.ret].kind = "SDK_KEY"
        /\ cells[last.ret].sample.tag = "SDKKey"
        /\ cells[last.ret].key_hash = last.before[last.c].key_hash
        /\ cells[last.ret].hash = last.before[last.c].hash
        /\ cells[last.c] = last.before[last.c]

\* The untyped copy of a decoded cell of a keyed type.
C10_Witness ==
    /\ last.op = "to_untyped"
    /\ IsDecodedKeyed(cells[last.c])
    /\ cells[last.ret].key_hash.tag = "CdrKey"
    /\ cells[last.ret].hash # 0

\* ------------------------------------------------------------------ C11
\* A cell of a struct with no key field that holds a value a constructor put
\* there.
IsKeylessValue(cell) ==
    /\ cell.type_ \in StructNames
    /\ KeyFieldIdx(cell.type_) = {}
    /\ cell.sample.tag = "SDKData"

\* C11: a struct with no field marked as key has has_key() false; a cell of it
\* made by from_fragments, from_iov or from_sample has no key hash and the
\* bucketing hash ddsi_serdata_init gave it, and eqkey is true for any two.
C11_NoKeyNoHash ==
    /\ \A T \in StructNames : KeyFieldIdx(T) = {} => ~has_key(T)
    /\ \A a \in DOMAIN cells :
         IsKeylessValue(cells[a]) =>
             /\ cells[a].key_hash = KeyHash_None
             /\ cells[a].hash = 0
             /\ \A b \in DOMAIN cells : IsKeylessValue(cells[b]) => eqkey(cells[a], cells[b])
    /\ (last.op = "eqkey" /\ last.a \in DOMAIN cells /\ last.b \in DOMAIN cells) =>
         ((IsKeylessValue(cells[last.a]) /\ IsKeylessValue(cells[last.b])) => last.eq)

\* eqkey was called on two cells of a keyless struct that hold different
\* values, one of them decoded.
C11_Witness ==
    /\ last.op = "eqkey"
    /\ DOMAIN cells = {1, 2}
    /\ last.a = 1 /\ last.b = 2
    /\ IsKeylessValue(cells[1]) /\ IsKeylessValue(cells[2])
    /\ cells[1].sample.v # cells[2].sample.v
    /\ last.eq

\* ------------------------------------------------------------------ C12
RECURSIVE KeyLeaves(_, _)
RECURSIVE KeyLeavesFrom(_, _, _)
\* The key fields of the value v of struct T in declaration order, a key field
\* that is a struct being replaced by that struct's key fields: each leaf with
\* its type.
KeyLeaves(T, v) == KeyLeavesFrom(T, v, 1)

KeyLeavesFrom(T, v, i) ==
    IF i > Len(Fields(T)) THEN << >>
    ELSE IF ~Fields(T)[i].key THEN KeyLeavesFrom(T, v, i + 1)
    ELSE IF Fields(T)[i].ty.kind = "path" /\ Fields(T)[i].ty.name \in StructNames
    THEN KeyLeaves(Fields(T)[i].ty.name, v[i]) \o KeyLeavesFrom(T, v, i + 1)
    ELSE << [ty |-> Fields(T)[i].ty, v |-> v[i]] >> \o KeyLeavesFrom(T, v, i + 1)

RECURSIVE EncodeLeaves(_, _, _)
\* The big-endian CDR payload of the leaves i.. appended to out.
EncodeLeaves(leaves, out, i) ==
    IF i > Len(leaves) THEN out
    ELSE EncodeLeaves(leaves, SerValue(leaves[i].ty, leaves[i].v, out), i + 1)

\* A typed cell that holds a value.
HoldsTypedValue(cell) == cell.type_ \in StructNames /\ cell.sample.tag = "SDKData"

\* C12: key_cdr(v) is the four-byte header and then the big-endian CDR
\* encoding of the key fields alone, in declaration order, a nested key struct
\* giving its own key fields only; values that agree on those fields have the
\* same key_cdr, whatever their other fields at any depth.
C12_KeyCdrIsKeyFieldsOnly ==
    \A a \in DOMAIN cells :
        HoldsTypedValue(cells[a]) =>
            /\ key_cdr(cells[a].type_, cells[a].sample.v)
                 = ENCAPSULATION_HEADER
                     \o EncodeLeaves(KeyLeaves(cells[a].type_, cells[a].sample.v), << >>, 1)
            /\ IsDecodedKeyed(cells[a]) =>
                 cells[a].hash = murmur3_32(ENCAPSULATION_HEADER
                     \o EncodeLeaves(KeyLeaves(cells[a].type_, cells[a].sample.v), << >>, 1))
            /\ \A b \in DOMAIN cells :
                 (HoldsTypedValue(cells[b]) /\ cells[b].type_ = cells[a].type_
                    /\ KeyLeaves(cells[a].type_, cells[a].sample.v)
                         = KeyLeaves(cells[b].type_, cells[b].sample.v)) =>
                     key_cdr(cells[a].type_, cells[a].sample.v)
                       = key_cdr(cells[b].type_, cells[b].sample.v)

\* Two cells of a struct with three key fields, one of them nested, whose
\* values differ in a non-key field and in a non-key field of the nested
\* struct, and whose key_cdr is the same 22 bytes.
C12_Witness ==
    /\ DOMAIN cells = {1, 2}
    /\ HoldsTypedValue(cells[1]) /\ HoldsTypedValue(cells[2])
    /\ cells[1].type_ = "Pair" /\ cells[2].type_ = "Pair"
    /\ cells[1].sample.v[2] # cells[2].sample.v[2]
    /\ cells[1].sample.v[4] # cells[2].sample.v[4]
    /\ key_cdr("Pair", cells[1].sample.v) = key_cdr("Pair", cells[2].sample.v)
    /\ key_cdr("Pair", cells[1].sample.v)
         = << 0, 0, 0, 0,  0, 0, 0, 1,  0, 0, 0, 2, 97, 0,  0, 0,  0, 0, 0, 2, 97, 0 >>

\* ------------------------------------------------------------------ C13
\* A cell in the Decoded or the Loaned state.
HoldsValue(cell) == cell.sample.tag \in {"SDKData", "SHMData"}

\* C13: for a cell holding a value, Decoded or Loaned, get_size returns the
\* number of bytes to_ser_ref has produced for it (the cached buffer) and the
\* number to_ser writes: the buffer of get_size bytes handed to to_ser holds
\* afterwards the encoding of the value, every byte of it written.
C13_SizeIsBytesProduced ==
    /\ \A c \in DOMAIN cells :
         (HoldsValue(cells[c]) /\ cells[c].cdr.some) =>
             get_size(cells[c]).size = Len(cells[c].cdr.v)
    /\ (last.op = "to_ser" /\ last.st = "ok" /\ HoldsValue(cells[last.c])) =>
         /\ last.size = get_size(cells[last.c]).size
         /\ last.buf = [ i \in 1..last.offset |-> Fill ]
                         \o Serialize(cells[last.c].type_, cells[last.c].sample.v)

\* ------------------------------------------------------------------ C14
\* C14: the bytes to_ser wrote into get_size bytes for a Decoded cell holding
\* v, handed to from_iov or from_fragments in any list of fragments, give a
\* Decoded cell holding v.
C14_RoundTrip ==
    last.op \in {"receive_iov", "receive_fragchain"} =>
        /\ last.st = "ok"
        /\ last.cell.sample = SampleData_SDKData(cells[last.c].sample.v)

\* ------------------------------------------------------------------ C15
\* The views of cell c the transport has not given back.
Outstanding(c) == Cardinality({ i \in 1..Len(views) : views[i].c = c })

\* C15: a to_ser_ref that returns the cell has added exactly one reference, a
\* to_ser_ref that returns null has added none, a to_ser_unref has taken
\* exactly one; the count is the one the constructor left plus the views not
\* yet given back, so matched pairs restore it.
C15_RefUnrefCount ==
    /\ (last.op = "to_ser_ref" /\ last.st = "ok") =>
         /\ last.ret = last.c
         /\ cells[last.c].refc = last.before[last.c].refc + 1
    /\ (last.op = "to_ser_ref" /\ last.st = "null") =>
         /\ last.ret = NULL
         /\ cells[last.c].refc = last.before[last.c].refc
    /\ last.op = "to_ser_unref" =>
         cells[last.c].refc = last.before[last.c].refc - 1
    /\ \A c \in DOMAIN cells : cells[c].refc = 1 + Outstanding(c)

\* The last view of a Decoded cell was given back: the count is the
\* constructor's again.
C15_Witness ==
    /\ last.op = "to_ser_unref"
    /\ views = << >>
    /\ cells[last.c].sample.tag = "SDKData"
    /\ cells[last.c].cdr.some
    /\ last.before[last.c].refc = 2
    /\ cells[last.c].refc = 1

\* ------------------------------------------------------------------ C16
\* The live slots that point at cell c.
SlotsOn(c) == Cardinality({ s \in SlotIds : slots[s].live /\ slots[s].serdata = c })

\* C16: a reference a slot took in to_sample is given back exactly once, when
\* the slot is filled again, cleared or dropped: every cell's count is the
\* transport's references plus the slots pointing at it, so once every slot
\* is dropped and the transport holds nothing, no cell is left and none was
\* freed twice.
C16_SlotRefsReleasedOnce ==
    /\ \A c \in DOMAIN cells : cells[c].refc = held[c] + SlotsOn(c)
    /\ ((\A s \in SlotIds : ~slots[s].live) /\ (\A c \in CellIds : held[c] = 0)) =>
         (cells = << >> /\ \A c \in CellIds : freed[c] <= 1)

\* ------------------------------------------------------------------ C17
\* C17: over any calls of to_ser_ref on a cell holding a value, from one
\* thread or from several at once, the cell's buffer is made and stored at
\* most once, and no view outstanding is of a buffer the cell has replaced.
C17_SerializedAtMostOnce ==
    /\ \A c \in CellIds : serialized[c] <= 1
    /\ \A i \in 1..Len(views) : views[i].gen = serialized[views[i].c]

\* ------------------------------------------------------------------ C18
\* The cell with its reference count left out.
BesidesRefc(cell) == [cell EXCEPT !.refc = 0]

\* C18: once a constructor has returned a KeyOnly, Decoded or Loaned cell, a
\* callback on it (here get_size, to_ser, to_ser_ref) leaves every field but
\* the reference count as it was.
C18_CallbacksWriteOnlyRefc ==
    (last.op \in {"get_size", "to_ser", "to_ser_ref"}
       /\ cells[last.c].sample.tag \in {"SDKKey", "SDKData", "SHMData"}) =>
        BesidesRefc(cells[last.c]) = BesidesRefc(last.before[last.c])

\* ------------------------------------------------------------------ C19
\* The slices of the reader being read, and whether none of them is empty.
SGSlices == sg.r.sc_list

SGNonEmpty == \A i \in 1..Len(SGSlices) : Len(SGSlices[i]) > 0

\* C19 (as claimed): for any byte string b cut into non-empty fragments, read
\* called with any buffer sizes until a call with a non-empty buffer returns 0
\* never fails, and the bytes the calls returned, put together, are b.
C19_ReadToEndYieldsAll ==
    (sg.op # "none" /\ SGNonEmpty) =>
        /\ ~crashed
        /\ sg.eof => sg.got = sg.b

\* ------------------------------------------------------------------ C20
\* The number of bytes of b that lie in the slices before slice j.
RECURSIVE SGStartOf(_, _)
SGStartOf(l, j) == IF j <= 1 THEN 0 ELSE SGStartOf(l, j - 1) + Len(l[j - 1])

\* C20: a read with a buffer of n bytes, made while the reader has a current
\* fragment, returns the next bytes of the stream, as many as n or as are left
\* in the current fragment, whichever is less; cut at the fragment's end the
\* reader stands at the start of the next fragment, otherwise it stands inside
\* the fragment right after the bytes returned.
C20_ReadCutAtBoundary ==
    (sg.op = "read" /\ ~crashed /\ sg.prev.alive /\ sg.prev.slice_cursor < Len(SGSlices)) =>
        LET j      == sg.prev.slice_cursor + 1
            pos    == SGStartOf(SGSlices, j) + sg.prev.slice_offset
            rem    == Len(SGSlices[j]) - sg.prev.slice_offset
            k      == IF sg.n < rem THEN sg.n ELSE rem
        IN  /\ sg.data = SubSeq(sg.b, pos + 1, pos + k)
            /\ Len(sg.data) = k
            /\ IF sg.n < rem
               THEN sg.r.slice_cursor = sg.prev.slice_cursor /\ sg.r.slice_offset = sg.prev.slice_offset + k
               ELSE sg.r.slice_cursor = sg.prev.slice_cursor + 1 /\ sg.r.slice_offset = 0
            /\ (~sg.eof) => Len(sg.got) = pos + k

\* A read that asked for more than the fragment had left was cut at the
\* boundary, after an earlier read had stopped inside that fragment.
C20_Witness ==
    /\ sg.op = "read"
    /\ sg.prev.alive
    /\ sg.prev.slice_offset > 0
    /\ sg.n > Len(sg.data)
    /\ Len(sg.data) > 0
    /\ sg.r.alive
    /\ sg.r.slice_offset = 0
    /\ sg.r.slice_cursor = sg.prev.slice_cursor + 1

\* ------------------------------------------------------------------ C21
\* The bytes a reader has not returned yet: what is left of its current slice
\* and the slices after it, none once sc_list is taken.
RECURSIVE SGRestFrom(_, _)
SGRestFrom(l, j) == IF j > Len(l) THEN 0 ELSE Len(l[j]) + SGRestFrom(l, j + 1)

SGRest(r) ==
    IF ~r.alive THEN 0
    ELSE SGRestFrom(r.sc_list, r.slice_cursor + 1) - r.slice_offset

\* C21 (as claimed): a read made once every fragment of the reader has been
\* consumed returns 0 and copies nothing, whatever the size of its buffer and
\* however many such reads were made before it.
C21_ExhaustedReadsZero ==
    (sg.op = "read" /\ SGRest(sg.prev) = 0) =>
        /\ ~crashed
        /\ sg.data = << >>
        /\ SGRest(sg.r) = 0


\* ------------------------------------------------------------------ C22
\* C22 (as claimed): for every buffer a successful loan() handed out, the
\* operations on its handle make exactly one transport call that ends the
\* loan (dds_write of the pointer or dds_return_loan): never more than one
\* while the handle lives, and exactly one once the handle has been given to
\* return_loan or dropped.
C22_LoanEndedOnce ==
    \A h \in HandleIds :
        /\ handles[h].ends <= 1
        /\ handles[h].st = "gone" /\ ~crashed => handles[h].ends = 1


\* ------------------------------------------------------------------ C23
\* The operations test_loan applies to its handle, in order.
CommitSequence == << "loan", "write", "assume_init", "return_loan" >>

\* C23 (as claimed): after loan(), a write of v through as_mut_ptr,
\* assume_init() and return_loan(), exactly one sample has been published by
\* the return_loan and it equals v, and the dds_write that published it found
\* the buffer still on loan to the handle.
C23_CommitPublishesWritten ==
    \A h \in HandleIds :
        (last.op = "return_loan" /\ last.h = h /\ handles[h].hist = CommitSequence) =>
            /\ ~crashed
            /\ published = Append(last.before.published, handles[h].wrote)
            /\ \E i \in 1..Len(last.calls) :
                 last.calls[i].f = "dds_write" /\ last.calls[i].loaned = h


\* ------------------------------------------------------------------ C24
\* C24 (as claimed): dropping a handle that was never given to return_loan,
\* Uninitialized or Initialized, publishes nothing, and the calls made for
\* the handle from its loan() to its drop leave the transport with as many
\* loans outstanding as it would have without them: one taken, one ended.
C24_DropLeavesNoTrace ==
    \A h \in HandleIds :
        (last.op = "drop" /\ last.h = h) =>
            /\ published = last.before.published
            /\ handles[h].net = 0


\* ------------------------------------------------------------------ C25
\* A handle in the Empty state.
Loaned_Empty == [Loaned_none EXCEPT !.st = "Empty"]

\* C25: return_loan calls dds_write, and so publishes, only for a handle in
\* the Initialized state; for an Uninitialized handle its first call is
\* dds_return_loan on the handle's buffer, it never calls dds_write and
\* nothing is published; for an Empty handle it makes no transport call and
\* returns Ok.
C25_ReturnLoanByState ==
    /\ last.op = "return_loan" =>
         /\ (\E i \in 1..Len(last.calls) : last.calls[i].f = "dds_write") =>
                last.was.st = "Initialized"
         /\ published # last.before.published => last.was.st = "Initialized"
         /\ last.was.st = "Uninitialized" =>
              /\ last.calls[1].f = "dds_return_loan"
              /\ last.calls[1].p = last.was.p
              /\ published = last.before.published
    /\ \A ub \in DanglingWrites :
         /\ DdsWriter_return_loan(Loaned_Empty, TransportNow, ub).t = TransportNow
         /\ DdsWriter_return_loan(Loaned_Empty, TransportNow, ub).st = "ok"

\* return_loan has handed back an Uninitialized buffer after an earlier
\* return_loan published an Initialized one.
C25_Witness ==
    /\ last.op = "return_loan"
    /\ last.was.st = "Uninitialized"
    /\ last.calls[1].loaned = last.h
    /\ published # << >>


\* ------------------------------------------------------------------ C26
\* The buffers on loan to the writer of type Ty.
LoansOf(Ty) == { a \in Addrs : onloan[a] # NULL /\ handles[onloan[a]].entity = Ty }

\* C26: loan() on a writer whose type is not fixed-size returns
\* Err(Unsupported), makes no transport call and no handle, changes no loan,
\* and the writer has no loan outstanding afterwards.
C26_VariableSizeUnsupported ==
    (last.op = "loan" /\ ~is_fixed_size(last.T)) =>
        /\ last.st = "err"
        /\ last.err = "Unsupported"
        /\ last.calls = << >>
        /\ handles[last.h].st = "none"
        /\ onloan = last.before.onloan
        /\ LoansOf(last.T) = {}

\* loan() was refused for the variable-size type while the writer of the
\* fixed-size type has a buffer on loan and the transport had one to give.
C26_Witness ==
    /\ last.op = "loan"
    /\ ~is_fixed_size(last.T)
    /\ last.ans.rc = 0
    /\ last.ans.p # NULL
    /\ last.st = "err"
    /\ LoansOf("TestTopic") # {}


\* ------------------------------------------------------------------ C27
\* C27 (as claimed): whenever dds_loan_sample does not provide a buffer, by a
\* non-zero code or by success with a null buffer, loan() returns Err with a
\* DDSError other than DdsOk, makes no handle and does not panic.
C27_LoanFailureIsError ==
    (last.op = "loan" /\ last.calls # << >> /\ (last.ans.rc # 0 \/ last.ans.p = NULL)) =>
        /\ ~crashed
        /\ last.st = "err"
        /\ last.err # "DdsOk"
        /\ handles[last.h].st = "none"


\* ------------------------------------------------------------------ C28
\* C28: realloc_samples growing an array of N samples to M > N gives an array
\* of M entries whose first N are the pointers it was given, the samples
\* behind them untouched, and whose entries N+1..M point at samples that were
\* not allocated before, each its own, in the default state: no cell, no
\* value, try_deref and get_sample give None. No cell is touched.
C28_GrowKeepsAndDefaults ==
    (last.op = "realloc_samples" /\ last.new_count > Len(last.old)) =>
        /\ Len(array) = last.new_count
        /\ \A i \in 1..Len(last.old) :
             /\ array[i] = last.old[i]
             /\ boxes[array[i]] = last.boxes[array[i]]
        /\ \A i \in (Len(last.old) + 1)..last.new_count :
             /\ ~last.boxes[array[i]].live
             /\ boxes[array[i]] = Sample_default
             /\ Sample_try_deref(boxes[array[i]], cells) = None
             /\ Sample_get_sample(boxes[array[i]]) = None
             /\ \A j \in 1..Len(array) : j # i => array[j] # array[i]
        /\ cells = last.before

\* An array whose sample holds a cell has been grown.
C28_Witness ==
    /\ last.op = "realloc_samples"
    /\ Len(last.old) > 0
    /\ last.new_count > Len(last.old)
    /\ last.boxes[last.old[1]].serdata # NULL


\* ------------------------------------------------------------------ C29
\* The samples among those at `ids` that pointed at cell c before the last
\* operation.
PointedAt(ids, c) == Cardinality({ i \in 1..Len(ids) : last.boxes[ids[i]].serdata = c })

\* The references of the samples at `ids` have been given back: every cell
\* has lost as many as samples pointed at it, and is gone if none is left.
RefsReleased(ids) ==
    \A c \in DOMAIN last.before :
        IF last.before[c].refc = PointedAt(ids, c)
        THEN c \notin DOMAIN cells
        ELSE c \in DOMAIN cells /\ cells[c].refc = last.before[c].refc - PointedAt(ids, c)

\* C29 (as claimed): realloc_samples shrinking an array of N samples to M < N
\* gives the first M pointers, the samples behind them untouched, and
\* destroys the samples of the entries M+1..N: none of them stays allocated
\* and the cell references they held are given back.
C29_ShrinkDestroysTail ==
    (last.op = "realloc_samples" /\ last.new_count < Len(last.old)) =>
        /\ array = SubSeq(last.old, 1, last.new_count)
        /\ \A i \in 1..last.new_count : boxes[array[i]] = last.boxes[array[i]]
        /\ \A i \in (last.new_count + 1)..Len(last.old) : ~boxes[last.old[i]].live
        /\ RefsReleased(SubSeq(last.old, last.new_count + 1, Len(last.old)))

\* ------------------------------------------------------------------ C30
\* C30 (as claimed): free_samples without DDS_FREE_ALL_BIT keeps the array
\* and its len samples allocated and leaves every one of them as
\* Sample::default() makes it, the cell references they held given back, so
\* that try_deref and get_sample give None for each.
C30_FreeContentsResets ==
    (last.op = "free_samples" /\ last.free_op = "DDS_FREE_CONTENTS") =>
        /\ array = last.ptrs
        /\ \A i \in 1..Len(array) :
             /\ boxes[array[i]] = Sample_default
             /\ Sample_try_deref(boxes[array[i]], cells) = None
             /\ Sample_get_sample(boxes[array[i]]) = None
        /\ RefsReleased(last.ptrs)


\* ------------------------------------------------------------------ C31
\* C31 (as claimed): DdsTopic::create either returns a topic whose adapter is
\* owned by the transport with both callback tables in place, or returns an
\* error and the adapter it made and both its tables are released.
C31_TopicAllOrNothing ==
    last.op = "create_topic" =>
        \/ /\ last.st = "ok"
           /\ sertypes[last.used].st = "transport"
           /\ sertypes[last.used].ops /\ sertypes[last.used].serdata_ops
           /\ last.used # last.a => sertypes[last.a].st = "freed"
        \/ /\ last.st = "err"
           /\ sertypes[last.a].st = "freed"
           /\ ~sertypes[last.a].ops /\ ~sertypes[last.a].serdata_ops


\* ------------------------------------------------------------------ C32
\* The cell the last encode callback was given holds a value cdr refuses to
\* serialize.
LastValueRefused ==
    /\ HoldsValueTag(last.before[last.c].sample.tag)
    /\ ~Serializable(TyPath(last.before[last.c].type_), last.before[last.c].sample.v)

\* C32 (as claimed): an encode callback that fails to serialize the value of
\* its cell, to_ser writing into the transport's buffer or to_ser_ref making
\* the cell's buffer, ends in a panic; it never returns, with null or
\* otherwise.
C32_EncodeFailureIsFatal ==
    /\ (last.op = "to_ser" /\ last.size # 0 /\ LastValueRefused) => last.st = "panic"
    /\ (last.op = "to_ser_ref" /\ ~last.before[last.c].cdr.some /\ LastValueRefused) =>
           last.st = "panic"


\* ------------------------------------------------------------------ C36
\* C36 (as claimed): to_ser_ref on a cell holding a value never panics, and
\* the view it returns ends inside the buffer allocated for the cell's cached
\* encoding: offset + iov_len is at most the buffer's capacity, whatever
\* offset and size were asked for and whether or not get_size ran before.
C36_ViewInsideEncoding ==
    (last.op = "to_ser_ref" /\ HoldsValueTag(last.before[last.c].sample.tag)) =>
        /\ last.st # "panic"
        /\ last.st = "ok" => last.offset + last.iov_len <= cells[last.c].cdr.cap


\* ------------------------------------------------------------------ C35
\* The cell from_iov makes of the encoding of the value v of struct T.
WireCell(T, v) ==
    serdata_from_iov(T, "SDK_DATA", << Serialize(T, v) >>, Len(Serialize(T, v))).cell

\* C35 (as claimed): the cell from_sample makes of a value of a keyed type has
\* the key-hash token and the bucketing hash of the cell from_iov makes of the
\* value's encoding, and it is not eqkey-equal to a cell of the same type that
\* holds a value with another key.
C35_FromSampleKeyAgrees ==
    (last.op = "from_sample" /\ last.st = "ok" /\ has_key(last.T)) =>
        /\ cells[last.ret].key_hash = WireCell(last.T, last.v).key_hash
        /\ cells[last.ret].hash = WireCell(last.T, last.v).hash
        /\ \A c \in DOMAIN cells :
             (/\ cells[c].type_ = last.T
              /\ cells[c].sample.tag = "SDKData"
              /\ key_cdr(last.T, cells[c].sample.v) # key_cdr(last.T, last.v)) =>
                 ~eqkey(cells[last.ret], cells[c])


\* ------------------------------------------------------------------ C40
\* C40 (as claimed): attach, detach and set_trigger return Ok(()) exactly when
\* the transport's call returned 0, and an Err that is not DdsOk exactly when
\* it returned a negative code.
C40_WaitsetResultFollowsCode ==
    last.op \in {"attach", "detach", "set_trigger"} =>
        /\ last.res.ok <=> last.rc = 0
        /\ (~last.res.ok /\ last.res.err # "DdsOk") <=> last.rc < 0


\* ------------------------------------------------------------------ C34
\* C34 (as claimed): after read_now or take_now returned Ok(count) with
\* count >= 1, get_sample() on the first sample of the buffer is Some: the
\* sample storage holds the value received.
C34_GetSampleAfterRead ==
    (last.op = "read_now" /\ last.res.ok /\ last.res.n >= 1) =>
        Sample_get_sample(sbufs[last.b].buffer[1]).some

\* ------------------------------------------------------------------ C37
\* The values of the cells the last read_now or take_now delivered, in order.
Delivered == [ i \in 1..Len(last.ids) |-> rcells[last.ids[i]].sample.v ]

\* C37 (as claimed): after read_now or take_now returned Ok(n), iter() on the
\* buffer yields the n samples that call delivered and nothing else, also
\* when an earlier call had filled more of the buffer.
C37_IterYieldsLatest ==
    (last.op = "read_now" /\ last.res.ok) =>
        SampleBuffer_iter(sbufs[last.b], rcells) = Delivered

\* ------------------------------------------------------------------ C38
\* C38 (as claimed): a poll whose read or take failed in the transport with
\* an error other than no data returns Ready(Err(DdsError(e))) with that
\* error; it does not return Pending.
C38_TransportErrorResolves ==
    (last.op = "poll" /\ last.read /\ last.rc < 0 /\ DDSError_from(last.rc) # "NoData") =>
        /\ last.out = "ready"
        /\ last.res = ReaderError_DdsError(DDSError_from(last.rc))

\* ------------------------------------------------------------------ C39
\* C39: once the requested-deadline-missed callback has run, the recorded
\* error stays, and every poll of an async read or take returns
\* Ready(Err(RequestedDeadLineMissed)) without reading, whether or not the
\* cache holds data.
C39_DeadlineErrorSticks ==
    /\ dds_reader.fired => inner.err = "RequestedDeadLineMissed"
    /\ (last.op = "poll" /\ last.fired) =>
           /\ last.out = "ready"
           /\ last.res = ReadErr("RequestedDeadLineMissed")
           /\ ~last.read

\* A poll after the deadline was missed, with data in the cache of the live
\* reader.
C39_Witness ==
    /\ last.op = "poll" /\ last.fired
    /\ rhc # << >> /\ dds_reader.alive

\* ------------------------------------------------------------------ C33
\* The future f waits for its waker while the live reader's cache holds data.
WaitsOnData(f) == futs[f].st = "pending" /\ rhc # << >> /\ dds_reader.alive

\* C33 (as claimed): no wake-up is lost. Under fair scheduling of the
\* callbacks and of the tasks, a future that waits while the cache holds data
\* does not wait forever: it completes, or the data is taken by someone else.
C33_NoWakeupLost ==
    \A f \in FutIds : WaitsOnData(f) ~> ~WaitsOnData(f)

====
